---------------------------- MODULE Spec2Model ----------------------------
(***************************************************************************)
(* A model of the cached, retrying API clients of the Tides & Tomes        *)
(* dashboard:                                                              *)
(*   - APIService._make_request       (presentation/api_services.py)       *)
(*   - APIService._get_cached/_set_cached and the services built on them   *)
(*   - OpenWeatherAPI's file cache    (data/connectors/openweather_api.py) *)
(*   - ScottishMarineAPI's file cache (data/connectors/                    *)
(*                                     scottish_marine_api.py)             *)
(*   - the dashboard's fetch functions (presentation/app_new.py,           *)
(*                                       presentation/app_complete.py)     *)
(*   - OpenWeatherAPI.get_all_regions_summary, the dashboard's functions   *)
(*     under @st.cache_data, the merge of the turtle queries               *)
(*   - RealTimeAnalytics (analysis/gresearch_realtime/                     *)
(*                        realtime_analytics.py)                           *)
(* Each component has its own specification (SpecRequest, SpecRequestFair, *)
(* SpecClients, SpecDashboard, SpecCacheKey, SpecThreads, SpecSummary,     *)
(* SpecMemo, SpecTurtles, SpecAnalytics); the variables of the other       *)
(* components stay at their initial values.                                *)
(***************************************************************************)
EXTENDS Integers, Sequences, FiniteSets, TLC

(***************************************************************************)
(* Bounds of the model.                                                    *)
(***************************************************************************)
\* largest value of config.API_RETRY_ATTEMPTS explored
MaxAttempts == 4
\* largest backoff multiplier tried when looking for an exponential law
MaxMultiplier == 4
\* how many times the clock advances in one behaviour
MaxTime == 3
\* largest time-to-live, in clock ticks
MaxTTL == 2

(***************************************************************************)
(* Program constants.                                                      *)
(***************************************************************************)
\* config.API_RETRY_DELAY, in seconds
API_RETRY_DELAY == 2
\* config.API_RETRY_ATTEMPTS
API_RETRY_ATTEMPTS == 3
\* len(turtle_queries) in ScottishMarineAPI.fetch_sea_turtles
NumTurtleQueries == 5
\* timedelta(hours=3) in OpenWeatherAPI.get_forecast; a clock tick is an hour
ForecastHours == 3

VARIABLES
    \* ---- APIService._make_request ----
    max_attempts,   \* config.API_RETRY_ATTEMPTS
    attempt,        \* the loop variable of `for attempt in range(...)`
    rq_state,       \* "running", "returned", "raised" or "fell_through"
    rq_error,       \* the kind of APIException raised, or "none"
    rq_response,    \* the attempt (1-based) whose response was returned, or 0
    outcomes,       \* what session.request did on each attempt so far
    sleeps,         \* the argument of each time.sleep call so far
    \* ---- the caches and the clients built on them ----
    instance,       \* the object the behaviour exercises
    now,            \* time.time() / datetime.now(), in clock ticks
    ttl,            \* the TTL the instance uses (config.CACHE_TTL_*, cache_duration)
    api_key,        \* whether the service's API key or token is configured
    cache,          \* APIService._cache
    cache_timestamps, \* APIService._cache_timestamps
    files,          \* the cache directory: path -> [data, mtime]
    call,           \* the call that returned last
    prev,           \* a summary of the client call before it
    last_put,       \* history: per key or path, the most recent store
    \* ---- the dashboard's fetch functions ----
    dash,           \* what the fetch function returned, and what its services did
    \* ---- APIService._get_cache_key ----
    ck,             \* two calls of _get_cache_key and the keys they returned
    \* ---- two threads on one APIService instance ----
    threads,        \* per thread: the call it is in, its position and its locals
    stores,         \* history: the (payload, time) pairs of the _set_cached calls
    \* ---- OpenWeatherAPI.get_all_regions_summary ----
    summary,        \* the call's inputs and what it returned
    \* ---- the dashboard's functions under @st.cache_data ----
    memo,           \* the entry st.cache_data holds for the function, if any
    upstream_ok,    \* whether the function's service answers at present
    st_now,         \* the clock of st.cache_data, in seconds
    rerun,          \* the function exercised and its last call
    \* ---- ScottishMarineAPI.fetch_sea_turtles, the merge of the queries ----
    turtles,        \* the answers to the five queries and what the call returned
    \* ---- RealTimeAnalytics (analysis/gresearch_realtime) ----
    window_size,    \* self.window_size
    turtle_window,  \* self.turtle_window, a deque(maxlen=window_size)
    seaweed_window, \* self.seaweed_window
    whisky_window,  \* self.whisky_window
    alerts,         \* self.alerts
    statistics,     \* self.statistics
    received,       \* history: per stream, every reading passed to process_*_stream
    feed            \* how the readings of the behaviour are chosen

rqVars == <<max_attempts, attempt, rq_state, rq_error, rq_response, outcomes, sleeps>>

clVars == <<instance, now, ttl, api_key, cache, cache_timestamps, files, call, prev, last_put>>

dashVars == <<dash>>

keyVars == <<ck>>

thVars == <<threads, stores>>

sumVars == <<summary>>

memoVars == <<memo, upstream_ok, st_now, rerun>>

\* the variables of the components specified after the threads
turtleVars == <<turtles>>

rtaVars == <<window_size, turtle_window, seaweed_window, whisky_window, alerts,
            statistics, received, feed>>

extVars == <<sumVars, memoVars, turtleVars, rtaVars>>

vars == <<max_attempts, attempt, rq_state, rq_error, rq_response, outcomes, sleeps,
          instance, now, ttl, api_key, cache, cache_timestamps, files, call, prev,
          last_put, dash, ck, threads, stores, summary,
          memo, upstream_ok, st_now, rerun, turtles,
          window_size, turtle_window, seaweed_window, whisky_window, alerts,
          statistics, received, feed>>

(***************************************************************************)
(* APIService._make_request                                                *)
(***************************************************************************)

\* What one session.request + raise_for_status can do: answer with a status,
\* time out, or fail at the network level (connection refused, DNS).
HttpStatuses == {200, 400, 401, 403, 404, 500, 503}

Outcomes ==
    [kind : {"http"}, status : HttpStatuses]
        \cup {[kind |-> "timeout", status |-> 0], [kind |-> "network", status |-> 0]}

\* response.raise_for_status(): HTTPError for 4xx and 5xx
RaisesHTTPError(status) == status >= 400 /\ status < 600

IsClientError(o) == o.kind = "http" /\ o.status >= 400 /\ o.status < 500

IsRetryable(o) ==
    \/ o.kind \in {"timeout", "network"}
    \/ o.kind = "http" /\ o.status >= 500

IsSuccess(o) == o.kind = "http" /\ ~RaisesHTTPError(o.status)

\* the argument of time.sleep in the three retry branches
RetryDelay(att) == API_RETRY_DELAY * (att + 1)

\* a retry test that is off by one: the last attempt sleeps instead of raising
MayRetryOffByOne(att, n) == att < n

\* `if attempt < config.API_RETRY_ATTEMPTS - 1`
MayRetry(att, n) == att < n - 1

Sleep(att) == [act |-> "sleep", delay |-> RetryDelay(att), error |-> "none"]
Raise(kind) == [act |-> "raise", delay |-> 0, error |-> kind]
Return == [act |-> "return", delay |-> 0, error |-> "none"]

\* except requests.exceptions.Timeout
TimeoutHandler(att, n) ==
    IF MayRetry(att, n) THEN Sleep(att) ELSE Raise("timeout")

\* an HTTPError handler that retries every error status, 4xx included
HTTPErrorRetriesAll(status, att, n) ==
    IF status >= 400
        THEN IF MayRetry(att, n) THEN Sleep(att) ELSE Raise("server_error")
        ELSE Raise("client_error")

\* an HTTPError handler that gives up on the first 5xx
HTTPErrorNeverRetries(status, att, n) ==
    IF status >= 500 THEN Raise("server_error") ELSE Raise("client_error")

\* except requests.exceptions.HTTPError
HTTPErrorHandler(status, att, n) ==
    IF status >= 500
        THEN IF MayRetry(att, n) THEN Sleep(att) ELSE Raise("server_error")
        ELSE Raise("client_error")

\* a RequestException handler that raises at once, without retrying
RequestExceptionNoRetry(att, n) == Raise("request_failed")

\* except requests.exceptions.RequestException
RequestExceptionHandler(att, n) ==
    IF MayRetry(att, n) THEN Sleep(att) ELSE Raise("request_failed")

\* the body of the try statement and the except clause that catches
Handle(o, att, n) ==
    CASE o.kind = "timeout" -> TimeoutHandler(att, n)
      [] o.kind = "http" /\ RaisesHTTPError(o.status) -> HTTPErrorHandler(o.status, att, n)
      [] o.kind = "http" /\ ~RaisesHTTPError(o.status) -> Return
      [] OTHER -> RequestExceptionHandler(att, n)

\* one iteration of the for loop, session.request ending as o
Iterate(o) ==
    /\ rq_state = "running"
    /\ attempt < max_attempts
    /\ outcomes' = Append(outcomes, o)
    /\ LET h == Handle(o, attempt, max_attempts) IN
        /\ sleeps' = IF h.act = "sleep" THEN Append(sleeps, h.delay) ELSE sleeps
        /\ attempt' = IF h.act = "sleep" THEN attempt + 1 ELSE attempt
        /\ rq_state' = CASE h.act = "return" -> "returned"
                         [] h.act = "raise" -> "raised"
                         [] OTHER -> "running"
        /\ rq_error' = h.error
        /\ rq_response' = IF h.act = "return" THEN attempt + 1 ELSE 0
    /\ UNCHANGED max_attempts
    /\ UNCHANGED <<clVars, dashVars, keyVars, thVars, extVars>>

AttemptSucceeds ==
    \E o \in Outcomes : IsSuccess(o) /\ Iterate(o)

AttemptTimesOut ==
    \E o \in Outcomes : o.kind = "timeout" /\ Iterate(o)

AttemptHTTPError ==
    \E o \in Outcomes : o.kind = "http" /\ RaisesHTTPError(o.status) /\ Iterate(o)

AttemptRequestException ==
    \E o \in Outcomes : o.kind = "network" /\ Iterate(o)

\* range(config.API_RETRY_ATTEMPTS) is exhausted: the function ends without a
\* return statement and the caller gets None
LoopExhausted ==
    /\ rq_state = "running"
    /\ ~(attempt < max_attempts)
    /\ rq_state' = "fell_through"
    /\ UNCHANGED <<max_attempts, attempt, rq_error, rq_response, outcomes, sleeps>>
    /\ UNCHANGED <<clVars, dashVars, keyVars, thVars, extVars>>

RequestInit ==
    /\ max_attempts \in 0..MaxAttempts
    /\ attempt = 0
    /\ rq_state = "running"
    /\ rq_error = "none"
    /\ rq_response = 0
    /\ outcomes = <<>>
    /\ sleeps = <<>>

\* the clients are not exercised while _make_request is examined
ClientsIdle ==
    /\ instance = "none"
    /\ now = 0
    /\ ttl = 0
    /\ api_key = FALSE
    /\ cache = <<>>
    /\ cache_timestamps = <<>>
    /\ files = <<>>
    /\ call = <<>>
    /\ prev = <<>>
    /\ last_put = <<>>

\* the dashboard is not exercised
DashIdle == dash = <<>>

\* _get_cache_key is not exercised
KeysIdle == ck = <<>>

\* no thread is started
ThreadsIdle == threads = <<>> /\ stores = {}

\* get_all_regions_summary is not called
SummaryIdle == summary = <<>>

\* no memoised function of the dashboard is called
MemoIdle == memo = <<>> /\ upstream_ok = FALSE /\ st_now = 0 /\ rerun = <<>>

\* the merge of the turtle queries is not exercised on its own
TurtlesIdle == turtles = <<>>

\* no RealTimeAnalytics object exists
AnalyticsIdle ==
    /\ window_size = 0
    /\ turtle_window = <<>>
    /\ seaweed_window = <<>>
    /\ whisky_window = <<>>
    /\ alerts = <<>>
    /\ statistics = <<>>
    /\ received = <<>>
    /\ feed = <<>>

\* the components specified after the threads are not exercised
ExtIdle == SummaryIdle /\ MemoIdle /\ TurtlesIdle /\ AnalyticsIdle

InitRequest == RequestInit /\ ClientsIdle /\ DashIdle /\ KeysIdle /\ ThreadsIdle /\ ExtIdle

NextRequest ==
    \/ AttemptSucceeds
    \/ AttemptTimesOut
    \/ AttemptHTTPError
    \/ AttemptRequestException
    \/ LoopExhausted

SpecRequest == InitRequest /\ [][NextRequest]_vars

\* the function is sequential code in which every attempt ends (the request
\* carries timeout=config.API_TIMEOUT) and every sleep is finite, so a step
\* that can be taken is taken
SpecRequestFair == SpecRequest /\ WF_vars(NextRequest)

(***************************************************************************)
(* Python values shared by the clients                                     *)
(***************************************************************************)

\* Payloads are records [source, region, data]; None is Python's None.
None == [source |-> "None", region |-> "None", data |-> "None"]

\* an empty container ([] or {}), as an upstream can return it
Empty == [source |-> "upstream", region |-> "-", data |-> "empty"]

\* Python truthiness, as `if cached:` tests it
Truthy(p) == p # None /\ p # Empty

\* dict[k] = v, del dict[k], dict.get(k, default), {}
DictSet(d, k, v) == [x \in (DOMAIN d) \cup {k} |-> IF x = k THEN v ELSE d[x]]
DictDel(d, k) == [x \in (DOMAIN d) \ {k} |-> d[x]]
DictGet(d, k, default) == IF k \in DOMAIN d THEN d[k] ELSE default
EmptyDict == [x \in {} |-> None]

\* the clock starts late enough that timestamp 0 is older than every TTL
StartTime == MaxTTL + 1

NoStamp == 0 - 1

NoUpstream == [ok |-> FALSE, data |-> "unused"]

NoCall ==
    [op |-> "none", key |-> "none", at |-> 0, ret |-> None, error |-> "none",
     fetches |-> 0, wrote |-> FALSE, up |-> NoUpstream, stored_at |-> NoStamp]

\* what is remembered of the call before the last one
Summary(c) == [op |-> c.op, key |-> c.key, at |-> c.at, error |-> c.error,
               fetches |-> c.fetches, up_ok |-> c.up.ok]

\* history: when the entry of k was last stored, NoStamp if never
StoredAt(k) == IF k \in DOMAIN last_put THEN last_put[k].at ELSE NoStamp

\* time passes
Tick ==
    /\ instance # "none"
    /\ now < StartTime + MaxTime
    /\ now' = now + 1
    /\ UNCHANGED <<instance, ttl, api_key, cache, cache_timestamps, files, call, prev,
                   last_put>>
    /\ UNCHANGED <<rqVars, dashVars, keyVars, thVars, extVars>>

(***************************************************************************)
(* APIService._get_cached and _set_cached                                  *)
(***************************************************************************)
CacheKeys == {"k1", "k2"}

CallerPayloads ==
    {[source |-> "caller", region |-> "-", data |-> d] : d \in {"p1", "p2"}}

\* a freshness test whose window is one tick short
FreshOneShort(timestamp, t_ttl, t) == t - timestamp < t_ttl - 1

\* a freshness test that still serves an entry of age ttl
FreshInclusive(timestamp, t_ttl, t) == t - timestamp <= t_ttl

\* `if time.time() - timestamp < ttl`
Fresh(timestamp, t_ttl, t) == t - timestamp < t_ttl

\* a _get_cached that forgets `del self._cache_timestamps[cache_key]`
GetCachedKeepsStamp(c, ts, k, t_ttl, t) ==
    IF k \in DOMAIN c
        THEN LET timestamp == DictGet(ts, k, 0) IN
             IF Fresh(timestamp, t_ttl, t)
                 THEN [ret |-> c[k], cache |-> c, stamps |-> ts, error |-> "none"]
                 ELSE [ret |-> None, cache |-> DictDel(c, k), stamps |-> ts,
                       error |-> "none"]
        ELSE [ret |-> None, cache |-> c, stamps |-> ts, error |-> "none"]

\* _get_cached(cache_key, ttl) at time t on the dictionaries c and ts: the
\* value returned and the dictionaries it leaves
GetCached(c, ts, k, t_ttl, t) ==
    IF k \in DOMAIN c
        THEN LET timestamp == DictGet(ts, k, 0) IN
             IF Fresh(timestamp, t_ttl, t)
                 THEN [ret |-> c[k], cache |-> c, stamps |-> ts, error |-> "none"]
                 ELSE IF k \in DOMAIN ts
                     THEN [ret |-> None, cache |-> DictDel(c, k),
                           stamps |-> DictDel(ts, k), error |-> "none"]
                     ELSE [ret |-> None, cache |-> DictDel(c, k),
                           stamps |-> ts, error |-> "KeyError"]
        ELSE [ret |-> None, cache |-> c, stamps |-> ts, error |-> "none"]

\* a _set_cached that keeps the timestamp of an entry it overwrites
SetCachedKeepsStamp(c, ts, k, data, t) ==
    [cache |-> DictSet(c, k, data),
     stamps |-> IF k \in DOMAIN ts THEN ts ELSE DictSet(ts, k, t)]

\* _set_cached(cache_key, data) at time t
SetCached(c, ts, k, data, t) ==
    [cache |-> DictSet(c, k, data), stamps |-> DictSet(ts, k, t)]

\* the instance whose callers pass a TTL of their own with every lookup
AnyTTLInstance == "APIService(ttl per call)"

\* the TTLs a caller passes
AnyTTLs == (0 - 1)..MaxTTL

\* a caller stores data under k
CallSetCached ==
    /\ instance \in {"APIService", AnyTTLInstance}
    /\ \E k \in CacheKeys, data \in CallerPayloads :
        LET r == SetCached(cache, cache_timestamps, k, data, now) IN
        /\ cache' = r.cache
        /\ cache_timestamps' = r.stamps
        /\ last_put' = DictSet(last_put, k, [data |-> data, at |-> now])
        /\ call' = [op |-> "_set_cached", key |-> k, at |-> now, ret |-> None,
                    error |-> "none", fetches |-> 0, wrote |-> TRUE,
                    up |-> NoUpstream, stored_at |-> StoredAt(k)]
    /\ UNCHANGED <<instance, now, ttl, api_key, files, prev>>
    /\ UNCHANGED <<rqVars, dashVars, keyVars, thVars, extVars>>

\* a caller looks k up with the instance's TTL
CallGetCached ==
    /\ instance = "APIService"
    /\ \E k \in CacheKeys :
        LET r == GetCached(cache, cache_timestamps, k, ttl, now) IN
        /\ cache' = r.cache
        /\ cache_timestamps' = r.stamps
        /\ call' = [op |-> "_get_cached", key |-> k, at |-> now, ret |-> r.ret,
                    error |-> r.error, fetches |-> 0, wrote |-> FALSE,
                    up |-> NoUpstream, stored_at |-> StoredAt(k)]
    /\ UNCHANGED <<instance, now, ttl, api_key, files, last_put, prev>>
    /\ UNCHANGED <<rqVars, dashVars, keyVars, thVars, extVars>>

\* a caller looks k up with a TTL of its choice
CallGetCachedAnyTTL ==
    /\ instance = AnyTTLInstance
    /\ \E k \in CacheKeys, t_ttl \in AnyTTLs :
        LET r == GetCached(cache, cache_timestamps, k, t_ttl, now) IN
        /\ cache' = r.cache
        /\ cache_timestamps' = r.stamps
        /\ call' = [op |-> "_get_cached", key |-> k, at |-> now, ret |-> r.ret,
                    error |-> r.error, fetches |-> 0, wrote |-> FALSE,
                    up |-> NoUpstream, stored_at |-> StoredAt(k), ttl |-> t_ttl,
                    found |-> IF k \notin DOMAIN cache THEN "absent"
                              ELSE IF r.ret = None /\ r.cache # cache THEN "expired"
                              ELSE "fresh"]
    /\ UNCHANGED <<instance, now, ttl, api_key, files, last_put, prev>>
    /\ UNCHANGED <<rqVars, dashVars, keyVars, thVars, extVars>>

(***************************************************************************)
(* OpenWeatherAPI: the file cache and get_current_weather                  *)
(***************************************************************************)
\* the keys of self.regions
Regions == {"edinburgh", "glasgow", "islay", "aberlour", "dufftown"}

\* the region arguments tried: a configured region and an unknown one
RegionArgs == {"edinburgh", "london"}

\* what requests.get + raise_for_status does: a JSON body, or one of the
\* RequestException subclasses (Timeout, ConnectionError, HTTPError)
WeatherUpstream ==
    {[ok |-> TRUE, data |-> d] : d \in {"w1", "w2"}}
        \cup {[ok |-> FALSE, data |-> e] : e \in {"timeout", "connection", "http404", "http500"}}

\* _get_cache_path(region, "current")
CachePath(region, data_type) == <<region, data_type>>

\* a validity test that still accepts a file of age cache_duration
IsCacheValidInclusive(fs, path, duration, t) ==
    path \in DOMAIN fs /\ t - fs[path].mtime <= duration

\* _is_cache_valid(cache_path)
IsCacheValid(fs, path, duration, t) ==
    path \in DOMAIN fs /\ t - fs[path].mtime < duration

\* a _read_cache that never finds a usable file
ReadCacheNothing(fs, path) == None

\* _read_cache(cache_path): None when the file cannot be opened
ReadCache(fs, path) == IF path \in DOMAIN fs THEN fs[path].data ELSE None

\* a _write_cache that leaves an existing file alone
WriteCacheOnce(fs, path, data, t) ==
    IF path \in DOMAIN fs THEN fs ELSE DictSet(fs, path, [data |-> data, mtime |-> t])

\* _write_cache(cache_path, data): open(cache_path, 'w') and json.dump; the
\* payloads are JSON values, which json.load reads back unchanged
WriteCache(fs, path, data, t) == DictSet(fs, path, [data |-> data, mtime |-> t])

\* _process_weather_data(data, region), for a region of self.regions
ProcessWeatherData(d, region) ==
    [source |-> "OpenWeatherMap API", region |-> region, data |-> d]

\* _fallback_data(region), for a region of self.regions
FallbackData(region) ==
    [source |-> "Historical Climate Data (API key verification pending)",
     region |-> region, data |-> "regional_defaults"]

\* a get_current_weather whose except branch re-raises when no cache file
\* can be read, instead of returning _fallback_data
GetCurrentWeatherNoFallback(fs, region, duration, t, up) ==
    LET cache_path == CachePath(region, "current")
        cached == ReadCache(fs, cache_path)
    IN  IF IsCacheValid(fs, cache_path, duration, t) /\ Truthy(cached)
            THEN [ret |-> cached, error |-> "none", files |-> fs,
                  fetches |-> 0, wrote |-> FALSE]
        ELSE IF up.ok
            THEN [ret |-> ProcessWeatherData(up.data, region), error |-> "none",
                  files |-> WriteCache(fs, cache_path,
                                       ProcessWeatherData(up.data, region), t),
                  fetches |-> 1, wrote |-> TRUE]
        ELSE IF Truthy(cached)
            THEN [ret |-> cached, error |-> "none", files |-> fs,
                  fetches |-> 1, wrote |-> FALSE]
            ELSE [ret |-> None, error |-> "RequestException", files |-> fs,
                  fetches |-> 1, wrote |-> FALSE]

\* get_current_weather(region) at time t with the upstream behaving as up:
\* the value returned or the exception raised, and the files it leaves
GetCurrentWeather(fs, region, duration, t, up) ==
    LET cache_path == CachePath(region, "current")
        cached == ReadCache(fs, cache_path)
    IN  IF IsCacheValid(fs, cache_path, duration, t) /\ Truthy(cached)
            THEN [ret |-> cached, error |-> "none", files |-> fs,
                  fetches |-> 0, wrote |-> FALSE]
        ELSE IF up.ok
            THEN IF region \in Regions
                THEN [ret |-> ProcessWeatherData(up.data, region), error |-> "none",
                      files |-> WriteCache(fs, cache_path,
                                           ProcessWeatherData(up.data, region), t),
                      fetches |-> 1, wrote |-> TRUE]
                ELSE [ret |-> None, error |-> "KeyError", files |-> fs,
                      fetches |-> 1, wrote |-> FALSE]
        ELSE IF Truthy(cached)
            THEN [ret |-> cached, error |-> "none", files |-> fs,
                  fetches |-> 1, wrote |-> FALSE]
        ELSE IF region \in Regions
            THEN [ret |-> FallbackData(region), error |-> "none", files |-> fs,
                  fetches |-> 1, wrote |-> FALSE]
            ELSE [ret |-> None, error |-> "KeyError", files |-> fs,
                  fetches |-> 1, wrote |-> FALSE]

CallGetCurrentWeather ==
    /\ instance = "OpenWeatherAPI"
    /\ \E region \in RegionArgs, up \in WeatherUpstream :
        LET r == GetCurrentWeather(files, region, ttl, now, up)
            path == CachePath(region, "current")
        IN
        /\ files' = r.files
        /\ last_put' = IF r.wrote
                          THEN DictSet(last_put, path, [data |-> r.ret, at |-> now])
                          ELSE last_put
        /\ prev' = Summary(call)
        /\ call' = [op |-> "get_current_weather", key |-> path, at |-> now,
                    ret |-> r.ret, error |-> r.error, fetches |-> r.fetches,
                    wrote |-> r.wrote, up |-> up, stored_at |-> StoredAt(path)]
    /\ UNCHANGED <<instance, now, ttl, api_key, cache, cache_timestamps>>
    /\ UNCHANGED <<rqVars, dashVars, keyVars, thVars, extVars>>

\* the value of a key the dictionary does not have
NoKey == "(no key)"

\* _process_forecast_data(data, region), for a region of self.regions: a
\* dictionary without "source"
ProcessForecastData(d, region) == [source |-> NoKey, region |-> region, data |-> d]

\* {"error": str(e)}
ErrorDict == [source |-> NoKey, region |-> NoKey, data |-> "error"]

\* get_forecast(region, days=5) at time t with the upstream behaving as up.
\* The method is explored as an instance of its own: it shares no file with
\* get_current_weather.
GetForecast(fs, region, t, up) ==
    LET cache_path == CachePath(region, "forecast_5d")
        cached == ReadCache(fs, cache_path)
    IN  IF /\ cache_path \in DOMAIN fs
           /\ t - fs[cache_path].mtime < ForecastHours
           /\ Truthy(cached)
            THEN [ret |-> cached, error |-> "none", files |-> fs,
                  fetches |-> 0, wrote |-> FALSE]
        ELSE IF up.ok
            THEN IF region \in Regions
                THEN [ret |-> ProcessForecastData(up.data, region), error |-> "none",
                      files |-> WriteCache(fs, cache_path,
                                           ProcessForecastData(up.data, region), t),
                      fetches |-> 1, wrote |-> TRUE]
                ELSE [ret |-> None, error |-> "KeyError", files |-> fs,
                      fetches |-> 1, wrote |-> FALSE]
        ELSE IF Truthy(cached)
            THEN [ret |-> cached, error |-> "none", files |-> fs,
                  fetches |-> 1, wrote |-> FALSE]
            ELSE [ret |-> ErrorDict, error |-> "none", files |-> fs,
                  fetches |-> 1, wrote |-> FALSE]

CallGetForecast ==
    /\ instance = "OpenWeatherAPI.get_forecast"
    /\ \E region \in RegionArgs, up \in WeatherUpstream :
        LET r == GetForecast(files, region, now, up)
            path == CachePath(region, "forecast_5d")
        IN
        /\ files' = r.files
        /\ last_put' = IF r.wrote
                          THEN DictSet(last_put, path, [data |-> r.ret, at |-> now])
                          ELSE last_put
        /\ prev' = Summary(call)
        /\ call' = [op |-> "get_forecast", key |-> path, at |-> now,
                    ret |-> r.ret, error |-> r.error, fetches |-> r.fetches,
                    wrote |-> r.wrote, up |-> up, stored_at |-> StoredAt(path)]
    /\ UNCHANGED <<instance, now, ttl, api_key, cache, cache_timestamps>>
    /\ UNCHANGED <<rqVars, dashVars, keyVars, thVars, extVars>>

(***************************************************************************)
(* The services built on APIService: WeatherbitService, NOAAService        *)
(***************************************************************************)

\* what the upstream does on the attempts of one _make_request: the same
\* thing on every attempt, or 503 on the first attempts and 200 afterwards
UpstreamOutcomes ==
    {[kind |-> "http", status |-> 200], [kind |-> "http", status |-> 404],
     [kind |-> "http", status |-> 503], [kind |-> "timeout", status |-> 0]}

UpstreamBehaviours ==
    {[i \in 0..(API_RETRY_ATTEMPTS - 1) |-> o] : o \in UpstreamOutcomes}
        \cup {[i \in 0..(API_RETRY_ATTEMPTS - 1) |->
                  IF i < k THEN [kind |-> "http", status |-> 503]
                           ELSE [kind |-> "http", status |-> 200]] :
               k \in 1..(API_RETRY_ATTEMPTS - 1)}

\* _make_request as a whole, from attempt att on, the upstream answering
\* attempt i with os[i]
RECURSIVE RunRequest(_, _, _)
RunRequest(os, att, n) ==
    IF ~(att < n)
        THEN [state |-> "fell_through", error |-> "none", attempts |-> att]
        ELSE LET h == Handle(os[att], att, n) IN
             CASE h.act = "return" ->
                    [state |-> "returned", error |-> "none", attempts |-> att + 1]
               [] h.act = "raise" ->
                    [state |-> "raised", error |-> h.error, attempts |-> att + 1]
               [] OTHER -> RunRequest(os, att + 1, n)

\* the cities asked for
Cities == {"Edinburgh", "Glasgow"}

\* _get_cache_key(city=city, country='GB')
WeatherbitKey(city) == <<"city", city, "country", "GB">>

\* _get_cache_key(endpoint='datasets')
DatasetsKey == <<"endpoint", "datasets">>

\* response.json(): a body without usable content, or one with content d
UpstreamBodies ==
    {Empty} \cup {[source |-> "upstream", region |-> "-", data |-> d] : d \in {"d1"}}

\* what a service method hands back: the value or the exception, the
\* dictionaries it leaves, and whether it called _make_request and _set_cached
Outcome(ret, error, c, ts, fetches, wrote) ==
    [ret |-> ret, error |-> error, cache |-> c, stamps |-> ts,
     fetches |-> fetches, wrote |-> wrote]

\* a get_current_weather that tests the API key only after the request
WeatherbitCurrentKeyTestedLate(c, ts, city, key_ok, t_ttl, t, os, body) ==
    LET cache_key == WeatherbitKey(city)
        g == GetCached(c, ts, cache_key, t_ttl, t)
    IN  IF g.error # "none"
            THEN Outcome(None, g.error, g.cache, g.stamps, 0, FALSE)
        ELSE IF Truthy(g.ret)
            THEN Outcome(g.ret, "none", g.cache, g.stamps, 0, FALSE)
        ELSE IF RunRequest(os, 0, API_RETRY_ATTEMPTS).state # "returned"
            THEN Outcome(None, "APIException", g.cache, g.stamps, 1, FALSE)
        ELSE IF ~key_ok \/ body = Empty
            THEN Outcome(None, "APIException", g.cache, g.stamps, 1, FALSE)
        ELSE LET result == [source |-> "Weatherbit", region |-> city, data |-> body.data]
                 w == SetCached(g.cache, g.stamps, cache_key, result, t)
             IN  Outcome(result, "none", w.cache, w.stamps, 1, TRUE)

\* WeatherbitService.get_current_weather(city)
WeatherbitCurrent(c, ts, city, key_ok, t_ttl, t, os, body) ==
    LET cache_key == WeatherbitKey(city)
        g == GetCached(c, ts, cache_key, t_ttl, t)
    IN  IF g.error # "none"
            THEN Outcome(None, g.error, g.cache, g.stamps, 0, FALSE)
        ELSE IF Truthy(g.ret)
            THEN Outcome(g.ret, "none", g.cache, g.stamps, 0, FALSE)
        ELSE IF ~key_ok
            THEN Outcome(None, "APIException", g.cache, g.stamps, 0, FALSE)
        ELSE IF RunRequest(os, 0, API_RETRY_ATTEMPTS).state # "returned"
            THEN Outcome(None, "APIException", g.cache, g.stamps, 1, FALSE)
        ELSE IF body = Empty
            THEN Outcome(None, "APIException", g.cache, g.stamps, 1, FALSE)
        ELSE LET result == [source |-> "Weatherbit", region |-> city, data |-> body.data]
                 w == SetCached(g.cache, g.stamps, cache_key, result, t)
             IN  Outcome(result, "none", w.cache, w.stamps, 1, TRUE)

\* NOAAService.get_datasets()
NOAADatasets(c, ts, key_ok, t_ttl, t, os, body) ==
    LET cache_key == DatasetsKey
        g == GetCached(c, ts, cache_key, t_ttl, t)
    IN  IF g.error # "none"
            THEN Outcome(None, g.error, g.cache, g.stamps, 0, FALSE)
        ELSE IF Truthy(g.ret)
            THEN Outcome(g.ret, "none", g.cache, g.stamps, 0, FALSE)
        ELSE IF ~key_ok
            THEN Outcome(None, "APIException", g.cache, g.stamps, 0, FALSE)
        ELSE IF RunRequest(os, 0, API_RETRY_ATTEMPTS).state # "returned"
            THEN Outcome(None, "APIException", g.cache, g.stamps, 1, FALSE)
        ELSE LET datasets == IF body = Empty
                                THEN Empty
                                ELSE [source |-> "NOAA", region |-> "-", data |-> body.data]
                 w == SetCached(g.cache, g.stamps, cache_key, datasets, t)
             IN  Outcome(datasets, "none", w.cache, w.stamps, 1, TRUE)

\* whether the upstream answers one _make_request with a response
UpstreamLive(os) == RunRequest(os, 0, API_RETRY_ATTEMPTS).state = "returned"

\* the bookkeeping common to the two service calls
ServiceCall(op, k, r, os, body) ==
    /\ cache' = r.cache
    /\ cache_timestamps' = r.stamps
    /\ last_put' = IF r.wrote
                      THEN DictSet(last_put, k, [data |-> r.ret, at |-> now])
                      ELSE last_put
    /\ prev' = Summary(call)
    /\ call' = [op |-> op, key |-> k, at |-> now, ret |-> r.ret, error |-> r.error,
                fetches |-> r.fetches, wrote |-> r.wrote,
                up |-> [ok |-> UpstreamLive(os),
                        data |-> IF UpstreamLive(os)
                                    THEN body.data
                                    ELSE RunRequest(os, 0, API_RETRY_ATTEMPTS).error],
                stored_at |-> StoredAt(k)]
    /\ UNCHANGED <<instance, now, ttl, api_key, files>>
    /\ UNCHANGED <<rqVars, dashVars, keyVars, thVars, extVars>>

CallWeatherbitCurrent ==
    /\ instance = "WeatherbitService"
    /\ \E city \in Cities, os \in UpstreamBehaviours, body \in UpstreamBodies :
        ServiceCall("get_current_weather", WeatherbitKey(city),
                    WeatherbitCurrent(cache, cache_timestamps, city, api_key, ttl, now,
                                      os, body),
                    os, body)

CallNOAADatasets ==
    /\ instance = "NOAAService"
    /\ \E os \in UpstreamBehaviours, body \in UpstreamBodies :
        ServiceCall("get_datasets", DatasetsKey,
                    NOAADatasets(cache, cache_timestamps, api_key, ttl, now, os, body),
                    os, body)

\* _get_cache_key(dataset='GHCND', location='CITY:UK000001', days=30)
ClimateKey == <<"dataset", "GHCND", "location", "CITY:UK000001", "days", "30">>

\* NOAAService.get_climate_data(): the result dict is never empty, whatever
\* data.get('results', []) is
NOAAClimateData(c, ts, key_ok, t_ttl, t, os, body) ==
    LET cache_key == ClimateKey
        g == GetCached(c, ts, cache_key, t_ttl, t)
    IN  IF g.error # "none"
            THEN Outcome(None, g.error, g.cache, g.stamps, 0, FALSE)
        ELSE IF Truthy(g.ret)
            THEN Outcome(g.ret, "none", g.cache, g.stamps, 0, FALSE)
        ELSE IF ~key_ok
            THEN Outcome(None, "APIException", g.cache, g.stamps, 0, FALSE)
        ELSE IF RunRequest(os, 0, API_RETRY_ATTEMPTS).state # "returned"
            THEN Outcome(None, "APIException", g.cache, g.stamps, 1, FALSE)
        ELSE LET result == [source |-> "NOAA", region |-> "CITY:UK000001",
                            data |-> body.data]
                 w == SetCached(g.cache, g.stamps, cache_key, result, t)
             IN  Outcome(result, "none", w.cache, w.stamps, 1, TRUE)

\* _get_cache_key(start=start_date, end=end_date, limit=100)
FishingKey == <<"start", "2025-01-01", "end", "2025-01-31", "limit", "100">>

\* GlobalFishingWatchService.get_fishing_events(start_date, end_date)
GFWFishingEvents(c, ts, token_ok, t_ttl, t, os, body) ==
    LET cache_key == FishingKey
        g == GetCached(c, ts, cache_key, t_ttl, t)
    IN  IF g.error # "none"
            THEN Outcome(None, g.error, g.cache, g.stamps, 0, FALSE)
        ELSE IF Truthy(g.ret)
            THEN Outcome(g.ret, "none", g.cache, g.stamps, 0, FALSE)
        ELSE IF ~token_ok
            THEN Outcome(None, "APIException", g.cache, g.stamps, 0, FALSE)
        ELSE IF RunRequest(os, 0, API_RETRY_ATTEMPTS).state # "returned"
            THEN Outcome(None, "APIException", g.cache, g.stamps, 1, FALSE)
        ELSE LET result == [source |-> "GlobalFishingWatch", region |-> "-",
                            data |-> body.data]
                 w == SetCached(g.cache, g.stamps, cache_key, result, t)
             IN  Outcome(result, "none", w.cache, w.stamps, 1, TRUE)

CallNOAAClimateData ==
    /\ instance = "NOAAService.get_climate_data"
    /\ \E os \in UpstreamBehaviours, body \in UpstreamBodies :
        ServiceCall("get_climate_data", ClimateKey,
                    NOAAClimateData(cache, cache_timestamps, api_key, ttl, now, os, body),
                    os, body)

CallGFWFishingEvents ==
    /\ instance = "GlobalFishingWatchService"
    /\ \E os \in UpstreamBehaviours, body \in UpstreamBodies :
        ServiceCall("get_fishing_events", FishingKey,
                    GFWFishingEvents(cache, cache_timestamps, api_key, ttl, now, os, body),
                    os, body)

(***************************************************************************)
(* ScottishMarineAPI: fetch_all_species, fetch_marine_habitats and         *)
(* fetch_sea_turtles over their cache files.  Each method reads and writes  *)
(* a file of its own and no other state, so the three are explored one at  *)
(* a time: `instance' names the object and the method under call.          *)
(***************************************************************************)

\* a feature record of the FeatureServer, known by its OBJECTID
Feature(id) == [OBJECTID |-> id]

\* what one requests.get + raise_for_status + json does: a RequestException,
\* or a body whose "features" list is as given
FeatureLists == {<<>>, <<Feature(1)>>, <<Feature(2), Feature(1)>>}

QueryFailed == [ok |-> FALSE, features |-> <<>>]

QueryOutcomes == {QueryFailed} \cup {[ok |-> TRUE, features |-> f] : f \in FeatureLists}

\* the answers to the turtle queries: the queries of `succeed' answer with the
\* features f, the others raise
TurtleResults ==
    {[q \in 1..NumTurtleQueries |->
        IF q \in succeed THEN [ok |-> TRUE, features |-> f] ELSE QueryFailed] :
            succeed \in SUBSET (1..NumTurtleQueries), f \in FeatureLists}

SpeciesFile == <<"all_species.json">>
TurtlesFile == <<"sea_turtles.json">>
HabitatsFile(region) == <<"habitats", region>>

\* fetch_all_species(cache) and fetch_marine_habitats(region, cache), which
\* differ in the endpoint and the file only
FetchFeatures(fs, cache_file, use_cache, t, up) ==
    IF use_cache /\ cache_file \in DOMAIN fs
        THEN [ret |-> fs[cache_file].data, files |-> fs, fetches |-> 0, wrote |-> FALSE]
    ELSE IF up.ok
        THEN [ret |-> up.features, files |-> WriteCache(fs, cache_file, up.features, t),
              fetches |-> 1, wrote |-> TRUE]
        ELSE [ret |-> <<>>, files |-> fs, fetches |-> 1, wrote |-> FALSE]

\* `for feature in features`: append the features whose OBJECTID is not in
\* all_turtles yet
RECURSIVE AddFeatures(_, _)
AddFeatures(all_turtles, features) ==
    IF features = <<>>
        THEN all_turtles
        ELSE LET feature == Head(features)
                 seen == \E i \in DOMAIN all_turtles :
                            all_turtles[i].OBJECTID = feature.OBJECTID
             IN  AddFeatures(IF seen THEN all_turtles ELSE Append(all_turtles, feature),
                             Tail(features))

\* a loop over the queries that the first failing query ends
RECURSIVE RunTurtleQueriesUntilFailure(_, _, _)
RunTurtleQueriesUntilFailure(all_turtles, results, q) ==
    IF q > NumTurtleQueries \/ ~results[q].ok
        THEN all_turtles
        ELSE RunTurtleQueriesUntilFailure(AddFeatures(all_turtles, results[q].features),
                                          results, q + 1)

\* `for query in turtle_queries`, from query q on: a failing query is skipped
RECURSIVE RunTurtleQueries(_, _, _)
RunTurtleQueries(all_turtles, results, q) ==
    IF q > NumTurtleQueries
        THEN all_turtles
        ELSE RunTurtleQueries(IF results[q].ok
                                 THEN AddFeatures(all_turtles, results[q].features)
                                 ELSE all_turtles,
                              results, q + 1)

\* fetch_sea_turtles(cache), query q answered as results[q]
FetchSeaTurtles(fs, use_cache, t, results) ==
    IF use_cache /\ TurtlesFile \in DOMAIN fs
        THEN [ret |-> fs[TurtlesFile].data, files |-> fs, fetches |-> 0, wrote |-> FALSE]
        ELSE LET all_turtles == RunTurtleQueries(<<>>, results, 1) IN
             [ret |-> all_turtles, files |-> WriteCache(fs, TurtlesFile, all_turtles, t),
              fetches |-> NumTurtleQueries, wrote |-> TRUE]

\* the name a call is recorded under: the method and its cache argument
MarineOp(method, use_cache) ==
    IF use_cache
        THEN method
        ELSE CASE method = "fetch_all_species" -> "fetch_all_species(cache=False)"
               [] method = "fetch_marine_habitats" -> "fetch_marine_habitats(cache=False)"
               [] method = "fetch_sea_turtles" -> "fetch_sea_turtles(cache=False)"

\* the bookkeeping common to the marine calls
MarineCall(op, path, r, up_ok) ==
    /\ files' = r.files
    /\ last_put' = IF r.wrote
                      THEN DictSet(last_put, path, [data |-> r.ret, at |-> now])
                      ELSE last_put
    /\ prev' = Summary(call)
    /\ call' = [op |-> op, key |-> path, at |-> now, ret |-> r.ret, error |-> "none",
                fetches |-> r.fetches, wrote |-> r.wrote,
                up |-> [ok |-> up_ok, data |-> "features"],
                stored_at |-> StoredAt(path)]
    /\ UNCHANGED <<instance, now, ttl, api_key, cache, cache_timestamps>>
    /\ UNCHANGED <<rqVars, dashVars, keyVars, thVars, extVars>>

CallFetchAllSpecies ==
    /\ instance = "ScottishMarineAPI.fetch_all_species"
    /\ \E use_cache \in BOOLEAN, up \in QueryOutcomes :
        MarineCall(MarineOp("fetch_all_species", use_cache), SpeciesFile,
                   FetchFeatures(files, SpeciesFile, use_cache, now, up), up.ok)

CallFetchMarineHabitats ==
    /\ instance = "ScottishMarineAPI.fetch_marine_habitats"
    /\ \E use_cache \in BOOLEAN, up \in QueryOutcomes :
        MarineCall(MarineOp("fetch_marine_habitats", use_cache), HabitatsFile("North Sea"),
                   FetchFeatures(files, HabitatsFile("North Sea"), use_cache, now, up),
                   up.ok)

\* the upstream counts as answering when at least one of the queries succeeds
CallFetchSeaTurtles ==
    /\ instance = "ScottishMarineAPI.fetch_sea_turtles"
    /\ \E use_cache \in BOOLEAN, results \in TurtleResults :
        MarineCall(MarineOp("fetch_sea_turtles", use_cache), TurtlesFile,
                   FetchSeaTurtles(files, use_cache, now, results),
                   \E q \in 1..NumTurtleQueries : results[q].ok)

(***************************************************************************)
(* The clients' specification                                              *)
(***************************************************************************)
\* _make_request is not stepped while the clients are examined
RequestIdle ==
    /\ max_attempts = API_RETRY_ATTEMPTS
    /\ attempt = 0
    /\ rq_state = "running"
    /\ rq_error = "none"
    /\ rq_response = 0
    /\ outcomes = <<>>
    /\ sleeps = <<>>

\* a fresh object: APIService.__init__, OpenWeatherAPI.__init__ with an empty
\* cache directory
ClientsInit ==
    /\ instance \in {"APIService", AnyTTLInstance,
                    "OpenWeatherAPI", "OpenWeatherAPI.get_forecast",
                    "WeatherbitService", "NOAAService",
                    "NOAAService.get_climate_data", "GlobalFishingWatchService",
                    "ScottishMarineAPI.fetch_all_species",
                    "ScottishMarineAPI.fetch_marine_habitats",
                    "ScottishMarineAPI.fetch_sea_turtles"}
    /\ now = StartTime
    /\ ttl \in (CASE instance = "APIService" -> 0..MaxTTL
                  [] instance = AnyTTLInstance -> {0}
                  [] instance = "OpenWeatherAPI.get_forecast" -> {ForecastHours}
                  [] OTHER -> 1..MaxTTL)
    /\ api_key \in (IF instance \in {"WeatherbitService", "NOAAService",
                                      "NOAAService.get_climate_data",
                                      "GlobalFishingWatchService"}
                       THEN BOOLEAN ELSE {TRUE})
    /\ cache = EmptyDict
    /\ cache_timestamps = EmptyDict
    /\ files = EmptyDict
    /\ call = NoCall
    /\ prev = Summary(NoCall)
    /\ last_put = EmptyDict

InitClients == ClientsInit /\ RequestIdle /\ DashIdle /\ KeysIdle /\ ThreadsIdle /\ ExtIdle

NextClients ==
    \/ Tick
    \/ CallSetCached
    \/ CallGetCached
    \/ CallGetCachedAnyTTL
    \/ CallGetCurrentWeather
    \/ CallGetForecast
    \/ CallWeatherbitCurrent
    \/ CallNOAADatasets
    \/ CallNOAAClimateData
    \/ CallGFWFishingEvents
    \/ CallFetchAllSpecies
    \/ CallFetchMarineHabitats
    \/ CallFetchSeaTurtles

SpecClients == InitClients /\ [][NextClients]_vars

(***************************************************************************)
(* The dashboard: WeatherbitService.get_scottish_regional_summary,         *)
(* app_new.fetch_weather_data and app_complete.fetch_all_data              *)
(***************************************************************************)
\* config.SCOTTISH_LOCATIONS, by name
Locations == <<"Edinburgh", "Glasgow", "Aberdeen", "Inverness", "Stirling">>

\* a quotient of two integers, as Python's true division gives it
Ratio(n, d) == [num |-> n, den |-> d]

\* a field that weather.get('temp') or weather.get('rh') found missing or
\* null in the upstream's JSON: Python's None, which is no number
NullField == 0 - 1000

\* what get_current_weather(location) does inside the summary: it raises, or
\* returns a result with this temperature and humidity
LocationOutcomes ==
    {[ok |-> FALSE, temperature |-> 0, humidity |-> 0]}
        \cup {[ok |-> TRUE, temperature |-> t, humidity |-> h] :
                t \in {6, 10}, h \in {70, 80}}
        \cup {[ok |-> TRUE, temperature |-> NullField, humidity |-> 70],
              [ok |-> TRUE, temperature |-> 10, humidity |-> NullField]}

\* what a service call hands to the dashboard
Raised(error) == [raised |-> TRUE, error |-> error, value |-> None]
Returned(value) == [raised |-> FALSE, error |-> "none", value |-> value]

\* the loop of get_scottish_regional_summary from location i on
RECURSIVE SummaryLoop(_, _, _)
SummaryLoop(ws, acc, i) ==
    IF i > Len(Locations)
        THEN acc
        ELSE SummaryLoop(ws,
                         IF ~ws[i].ok
                            THEN acc
                         ELSE IF ws[i].temperature = NullField
                            \* results.append precedes the sums; int + None
                            \* raises TypeError, which the except clause logs
                            THEN [acc EXCEPT !.results = Append(@, Locations[i])]
                         ELSE IF ws[i].humidity = NullField
                            THEN [acc EXCEPT !.results = Append(@, Locations[i]),
                                             !.total_temp = @ + ws[i].temperature]
                            ELSE [results |-> Append(acc.results, Locations[i]),
                                  total_temp |-> acc.total_temp + ws[i].temperature,
                                  total_humidity |-> acc.total_humidity + ws[i].humidity],
                         i + 1)

\* WeatherbitService.get_scottish_regional_summary(), get_current_weather
\* behaving as ws[i] for location i
RegionalSummary(ws) ==
    LET acc == SummaryLoop(ws, [results |-> <<>>, total_temp |-> 0, total_humidity |-> 0], 1)
    IN  IF acc.results = <<>>
            THEN Raised("APIException")
            ELSE Returned([regions |-> acc.results,
                           count |-> Len(acc.results),
                           avg_temperature |-> Ratio(acc.total_temp, Len(acc.results)),
                           avg_humidity |-> Ratio(acc.total_humidity, Len(acc.results)),
                           source |-> NoKey, status |-> NoKey])

\* what the summary call of the dashboard can do: the service never came up
\* (weatherbit_service is None), or the summary over some location outcomes
WeatherServiceOutcomes ==
    {Raised("AttributeError")}
        \cup {RegionalSummary(ws) : ws \in [1..Len(Locations) -> LocationOutcomes]}

\* the other service calls are known by their outcome only
ServiceOutcomes == {Raised("APIException"), Returned([content |-> "live"])}

\* app_new._get_fallback_weather()
FallbackWeatherNew ==
    [regions |-> Locations, count |-> 5,
     avg_temperature |-> Ratio(17, 2), avg_humidity |-> Ratio(75, 1),
     source |-> "fallback", status |-> "fallback"]

\* app_complete._get_fallback_weather()
FallbackWeatherComplete ==
    [regions |-> Locations, count |-> 5,
     avg_temperature |-> Ratio(17, 2), avg_humidity |-> Ratio(75, 1),
     source |-> NoKey, status |-> NoKey]

\* app_new.fetch_weather_data(), the summary call ending as svc
FetchWeatherData(svc) ==
    IF svc.raised
        THEN FallbackWeatherNew
        ELSE [svc.value EXCEPT !.source = "api", !.status = "active"]

\* a status that is 'active' whatever the call did
SourceStatusAlwaysActive(raised) == "active"

\* data['status'][source] as the try statement of a source sets it
SourceStatus(raised) == IF raised THEN "fallback" ELSE "active"

\* app_complete.fetch_all_data(): the summary call ends as w, get_datasets as
\* d, get_climate_data as c and get_fishing_activity_summary as f
FetchAllData(w, d, c, f) ==
    [weather |-> IF w.raised THEN FallbackWeatherComplete ELSE w.value,
     climate |-> IF d.raised \/ c.raised
                    THEN [datasets |-> [content |-> "fallback"],
                          records |-> [content |-> "fallback"]]
                    ELSE [datasets |-> d.value, records |-> c.value],
     fishing |-> IF f.raised THEN [content |-> "fallback"] ELSE f.value,
     status |-> [weather |-> SourceStatus(w.raised),
                 climate |-> SourceStatus(d.raised \/ c.raised),
                 fishing |-> SourceStatus(f.raised)]]

\* the dashboard calls fetch_weather_data once
CallFetchWeatherData ==
    /\ dash.fn = "none"
    /\ \E w \in WeatherServiceOutcomes :
        dash' = [fn |-> "fetch_weather_data",
                 data |-> [weather |-> FetchWeatherData(w)],
                 raised |-> [weather |-> w.raised],
                 value |-> [weather |-> w.value]]
    /\ UNCHANGED <<rqVars, clVars, keyVars, thVars, extVars>>

\* the dashboard calls fetch_all_data once
CallFetchAllData ==
    /\ dash.fn = "none"
    /\ \E w \in WeatherServiceOutcomes, d \in ServiceOutcomes, c \in ServiceOutcomes,
          f \in ServiceOutcomes :
        dash' = [fn |-> "fetch_all_data",
                 data |-> FetchAllData(w, d, c, f),
                 raised |-> [weather |-> w.raised, climate |-> d.raised \/ c.raised,
                             fishing |-> f.raised],
                 value |-> [weather |-> w.value]]
    /\ UNCHANGED <<rqVars, clVars, keyVars, thVars, extVars>>

\* get_scottish_regional_summary is called on its own, get_current_weather
\* behaving as ws[i] for location i
CallRegionalSummary ==
    /\ dash.fn = "none"
    /\ \E ws \in [1..Len(Locations) -> LocationOutcomes] :
        dash' = [fn |-> "get_scottish_regional_summary", ws |-> ws,
                 result |-> RegionalSummary(ws)]
    /\ UNCHANGED <<rqVars, clVars, keyVars, thVars, extVars>>

DashInit == dash = [fn |-> "none"]

InitDashboard == DashInit /\ RequestIdle /\ ClientsIdle /\ KeysIdle /\ ThreadsIdle /\ ExtIdle

NextDashboard == CallFetchWeatherData \/ CallFetchAllData \/ CallRegionalSummary

SpecDashboard == InitDashboard /\ [][NextDashboard]_vars

(***************************************************************************)
(* APIService._get_cache_key                                               *)
(***************************************************************************)
\* the keyword names of the service methods' keys, in the order in which
\* sort_keys=True compares them
KeyNames == <<"city", "country", "days">>

\* keyword values: strings and integers, among them a string and an integer
\* with the same digits
KeyValues ==
    {[type |-> "str", text |-> "GB"], [type |-> "str", text |-> "30"],
     [type |-> "int", text |-> "30"]}

\* the sequences without repetition over the set S
RECURSIVE Arrangements(_)
Arrangements(S) ==
    {<<>>} \cup UNION {{<<x>> \o rest : rest \in Arrangements(S \ {x})} : x \in S}

\* **kwargs: the keywords of a call in the order they were passed, each name
\* at most once
KwargsOf(names) ==
    {[i \in 1..Len(names) |-> [name |-> names[i], value |-> vs[i]]] :
        vs \in [1..Len(names) -> KeyValues]}

Kwargs == UNION {KwargsOf(names) : names \in Arrangements({KeyNames[i] : i \in DOMAIN KeyNames})}

\* where each name stands among the keywords of a call
IndexOf(kw) ==
    [n \in {kw[i].name : i \in DOMAIN kw} |->
        (CHOOSE i \in DOMAIN kw : kw[i].name = n) ]

\* the name-to-value mapping that a call's keywords form
Mapping(kw) == [n \in DOMAIN IndexOf(kw) |-> kw[IndexOf(kw)[n]].value]

\* the items of the dictionary in insertion order
ItemsAsPassed(kw) == kw

\* the items of the dictionary ordered by key, from KeyNames[i] on
RECURSIVE ItemsSortedFrom(_, _)
ItemsSortedFrom(kw, i) ==
    IF i > Len(KeyNames)
        THEN <<>>
        ELSE (IF KeyNames[i] \in DOMAIN IndexOf(kw)
                 THEN <<kw[IndexOf(kw)[KeyNames[i]]]>>
                 ELSE <<>>) \o ItemsSortedFrom(kw, i + 1)

\* sort_keys=True
ItemsSorted(kw) == ItemsSortedFrom(kw, 1)

\* the JSON text of a value, as a sequence of pieces: a string is quoted, an
\* integer is not
JsonValue(v) == IF v.type = "str" THEN <<"\"", v.text, "\"">> ELSE <<v.text>>

RECURSIVE JsonItems(_)
JsonItems(items) ==
    IF items = <<>>
        THEN <<>>
        ELSE <<"\"", Head(items).name, "\"", ": ">> \o JsonValue(Head(items).value)
                \o (IF Tail(items) = <<>> THEN <<>> ELSE <<", ">> \o JsonItems(Tail(items)))

\* json.dumps(kwargs) without sort_keys
JsonDumpsAsPassed(kw) == <<"{">> \o JsonItems(ItemsAsPassed(kw)) \o <<"}">>

\* json.dumps(kwargs, sort_keys=True)
JsonDumps(kw) == <<"{">> \o JsonItems(ItemsSorted(kw)) \o <<"}">>

\* hashlib.md5(text.encode()).hexdigest(): a function of the text, taken to
\* have no collision among the texts explored
Md5Hex(text) == [md5 |-> text]

\* _get_cache_key(**kwargs)
GetCacheKey(kw) == Md5Hex(JsonDumps(kw))

\* two calls are made and their keys kept
CallGetCacheKey ==
    /\ ~ck.done
    /\ ck' = [ck EXCEPT !.done = TRUE,
                        !.key_a = GetCacheKey(ck.a),
                        !.key_b = GetCacheKey(ck.b)]
    /\ UNCHANGED <<rqVars, clVars, dashVars, thVars, extVars>>

KeysInit ==
    \E a \in Kwargs, b \in Kwargs :
        ck = [a |-> a, b |-> b, done |-> FALSE, key_a |-> Md5Hex(<<>>), key_b |-> Md5Hex(<<>>)]

InitCacheKey == KeysInit /\ RequestIdle /\ ClientsIdle /\ DashIdle /\ ThreadsIdle /\ ExtIdle

NextCacheKey == CallGetCacheKey

SpecCacheKey == InitCacheKey /\ [][NextCacheKey]_vars

(***************************************************************************)
(* Two threads on one APIService instance.  The module-level services are  *)
(* shared by every thread that imports them and _get_cached/_set_cached    *)
(* take no lock, so a thread can be preempted between any two dictionary   *)
(* operations; each operation by itself is atomic.                         *)
(***************************************************************************)
Threads == {"t1", "t2"}

\* the one key the threads contend for
SharedKey == "k1"

\* a thread outside any call
IdleThread ==
    [op |-> "none", pc |-> "idle", data |-> None, timestamp |-> NoStamp, ret |-> None,
     error |-> "none"]

\* thread t moves to position pc with the locals changed as given
Step(t, th) ==
    /\ threads' = [threads EXCEPT ![t] = th]
    /\ UNCHANGED <<instance, ttl, api_key, files, call, prev, last_put>>
    /\ UNCHANGED <<rqVars, dashVars, keyVars, extVars>>

\* the call returns value
ReturnFrom(th, value) == [th EXCEPT !.pc = "idle", !.ret = value]

\* the call ends with an exception
RaiseFrom(th, error) == [th EXCEPT !.pc = "idle", !.error = error]

\* a thread enters _get_cached(SharedKey, ttl)
BeginGetCached ==
    \E t \in Threads :
        /\ instance = "threads"
        /\ threads[t].pc = "idle"
        /\ Step(t, [IdleThread EXCEPT !.op = "_get_cached", !.pc = "if_in_cache"])
        /\ UNCHANGED <<now, cache, cache_timestamps, stores>>

\* `if cache_key in self._cache`
GetTestsMembership ==
    \E t \in Threads :
        /\ threads[t].pc = "if_in_cache"
        /\ Step(t, IF SharedKey \in DOMAIN cache
                       THEN [threads[t] EXCEPT !.pc = "read_timestamp"]
                       ELSE ReturnFrom(threads[t], None))
        /\ UNCHANGED <<now, cache, cache_timestamps, stores>>

\* `timestamp = self._cache_timestamps.get(cache_key, 0)`
GetReadsTimestamp ==
    \E t \in Threads :
        /\ threads[t].pc = "read_timestamp"
        /\ Step(t, [threads[t] EXCEPT !.pc = "if_fresh",
                                      !.timestamp = DictGet(cache_timestamps, SharedKey, 0)])
        /\ UNCHANGED <<now, cache, cache_timestamps, stores>>

\* `if time.time() - timestamp < ttl`
GetTestsFreshness ==
    \E t \in Threads :
        /\ threads[t].pc = "if_fresh"
        /\ Step(t, [threads[t] EXCEPT !.pc = IF Fresh(threads[t].timestamp, ttl, now)
                                                THEN "return_entry"
                                                ELSE "del_cache"])
        /\ UNCHANGED <<now, cache, cache_timestamps, stores>>

\* `return self._cache[cache_key]`
GetReturnsEntry ==
    \E t \in Threads :
        /\ threads[t].pc = "return_entry"
        /\ Step(t, IF SharedKey \in DOMAIN cache
                       THEN ReturnFrom(threads[t], cache[SharedKey])
                       ELSE RaiseFrom(threads[t], "KeyError"))
        /\ UNCHANGED <<now, cache, cache_timestamps, stores>>

\* `del self._cache[cache_key]`
GetDeletesEntry ==
    \E t \in Threads :
        /\ threads[t].pc = "del_cache"
        /\ Step(t, IF SharedKey \in DOMAIN cache
                       THEN [threads[t] EXCEPT !.pc = "del_timestamp"]
                       ELSE RaiseFrom(threads[t], "KeyError"))
        /\ cache' = DictDel(cache, SharedKey)
        /\ UNCHANGED <<now, cache_timestamps, stores>>

\* `del self._cache_timestamps[cache_key]`, then `return None`
GetDeletesTimestamp ==
    \E t \in Threads :
        /\ threads[t].pc = "del_timestamp"
        /\ Step(t, IF SharedKey \in DOMAIN cache_timestamps
                       THEN ReturnFrom(threads[t], None)
                       ELSE RaiseFrom(threads[t], "KeyError"))
        /\ cache_timestamps' = DictDel(cache_timestamps, SharedKey)
        /\ UNCHANGED <<now, cache, stores>>

\* a thread enters _set_cached(SharedKey, data)
BeginSetCached ==
    \E t \in Threads, data \in CallerPayloads :
        /\ instance = "threads"
        /\ threads[t].pc = "idle"
        /\ Step(t, [IdleThread EXCEPT !.op = "_set_cached", !.pc = "set_cache",
                                      !.data = data])
        /\ UNCHANGED <<now, cache, cache_timestamps, stores>>

\* `self._cache[cache_key] = data`
SetStoresData ==
    \E t \in Threads :
        /\ threads[t].pc = "set_cache"
        /\ Step(t, [threads[t] EXCEPT !.pc = "set_timestamp"])
        /\ cache' = DictSet(cache, SharedKey, threads[t].data)
        /\ UNCHANGED <<now, cache_timestamps, stores>>

\* `self._cache_timestamps[cache_key] = time.time()`
SetStoresTimestamp ==
    \E t \in Threads :
        /\ threads[t].pc = "set_timestamp"
        /\ Step(t, ReturnFrom(threads[t], None))
        /\ cache_timestamps' = DictSet(cache_timestamps, SharedKey, now)
        /\ stores' = stores \cup {[data |-> threads[t].data, at |-> now]}
        /\ UNCHANGED <<now, cache>>

\* time passes between two steps
ThreadsTick ==
    /\ instance = "threads"
    /\ Tick
    /\ UNCHANGED thVars

ThreadsInit ==
    /\ instance = "threads"
    /\ now = StartTime
    /\ ttl \in 1..MaxTTL
    /\ api_key = TRUE
    /\ cache = EmptyDict
    /\ cache_timestamps = EmptyDict
    /\ files = EmptyDict
    /\ call = NoCall
    /\ prev = Summary(NoCall)
    /\ last_put = EmptyDict
    /\ threads = [t \in Threads |-> IdleThread]
    /\ stores = {}

InitThreads == ThreadsInit /\ RequestIdle /\ DashIdle /\ KeysIdle /\ ExtIdle

NextThreads ==
    \/ ThreadsTick
    \/ BeginGetCached
    \/ GetTestsMembership
    \/ GetReadsTimestamp
    \/ GetTestsFreshness
    \/ GetReturnsEntry
    \/ GetDeletesEntry
    \/ GetDeletesTimestamp
    \/ BeginSetCached
    \/ SetStoresData
    \/ SetStoresTimestamp

SpecThreads == InitThreads /\ [][NextThreads]_vars

(***************************************************************************)
(* OpenWeatherAPI.get_all_regions_summary                                  *)
(***************************************************************************)
\* self.regions.keys(), in the order of the dict literal
RegionKeys == <<"edinburgh", "glasgow", "islay", "aberlour", "dufftown">>

\* self.cache_duration = timedelta(hours=1); a clock tick is an hour
CacheDurationHours == 1

\* what requests.get + raise_for_status does for one region
SummaryUpstream ==
    {[ok |-> TRUE, data |-> "w1"]}
        \cup {[ok |-> FALSE, data |-> e] : e \in {"timeout", "connection", "http404", "http500"}}

\* the states of one region's cache file when the call starts
CacheFileStates == {"absent", "valid", "expired"}

\* the cache directory in which the files of the regions are as in per: a
\* file holds what an earlier get_current_weather wrote
CacheDir(per, duration, t) ==
    [path \in {CachePath(r, "current") : r \in {x \in Regions : per[x] # "absent"}} |->
        [data |-> ProcessWeatherData("w0", path[1]),
         mtime |-> IF per[path[1]] = "valid" THEN t ELSE t - duration]]

\* the loop `for region_key in self.regions.keys()` from its i-th key on; an
\* exception of get_current_weather leaves the function
RECURSIVE AllRegionsLoop(_, _, _, _, _, _)
AllRegionsLoop(fs, regions, i, duration, t, ups) ==
    IF i > Len(RegionKeys)
        THEN [regions |-> regions, error |-> "none", files |-> fs]
        ELSE LET region_key == RegionKeys[i]
                 r == GetCurrentWeather(fs, region_key, duration, t, ups[region_key])
             IN  IF r.error # "none"
                     THEN [regions |-> regions, error |-> r.error, files |-> r.files]
                     ELSE AllRegionsLoop(r.files, DictSet(regions, region_key, r.ret),
                                         i + 1, duration, t, ups)

\* get_all_regions_summary(): summary["regions"], or the exception
GetAllRegionsSummary(fs, duration, t, ups) ==
    AllRegionsLoop(fs, EmptyDict, 1, duration, t, ups)

NotCalled == [fn |-> "none"]

CallGetAllRegionsSummary ==
    /\ instance = "OpenWeatherAPI.get_all_regions_summary"
    /\ summary.fn = "none"
    /\ \E ups \in [Regions -> SummaryUpstream] :
        LET r == GetAllRegionsSummary(files, ttl, now, ups)
        IN
        /\ files' = r.files
        /\ summary' = [fn |-> "get_all_regions_summary", regions |-> r.regions,
                       error |-> r.error, before |-> files,
                       failures |-> {ups[x].data : x \in {y \in Regions : ~ups[y].ok}}]
    /\ UNCHANGED <<instance, now, ttl, api_key, cache, cache_timestamps, call, prev,
                   last_put>>
    /\ UNCHANGED <<rqVars, dashVars, keyVars, thVars, memoVars, turtleVars,
                   rtaVars>>

\* a fresh OpenWeatherAPI over a cache directory left by earlier runs
SummaryInit ==
    /\ instance = "OpenWeatherAPI.get_all_regions_summary"
    /\ now = StartTime
    /\ ttl = CacheDurationHours
    /\ api_key = TRUE
    /\ cache = EmptyDict
    /\ cache_timestamps = EmptyDict
    /\ files \in {CacheDir(per, CacheDurationHours, StartTime) :
                      per \in [Regions -> CacheFileStates]}
    /\ call = NoCall
    /\ prev = Summary(NoCall)
    /\ last_put = EmptyDict
    /\ summary = NotCalled

InitSummary == SummaryInit /\ RequestIdle /\ DashIdle /\ KeysIdle /\ ThreadsIdle /\ MemoIdle
        /\ TurtlesIdle /\ AnalyticsIdle

NextSummary == CallGetAllRegionsSummary

SpecSummary == InitSummary /\ [][NextSummary]_vars

(***************************************************************************)
(* The dashboard's fetch functions under @st.cache_data (app_new.py)       *)
(***************************************************************************)
\* @st.cache_data(ttl=1800) on fetch_weather_data, in seconds
WeatherMemoTTL == 1800
\* @st.cache_data(ttl=86400) on fetch_climate_data
ClimateMemoTTL == 86400
\* @st.cache_data(ttl=3600) on fetch_fishing_data
FishingMemoTTL == 3600

\* how many half-TTL steps the clock of a behaviour makes at most
MaxMemoSteps == 5

MemoisedFunctions == {"fetch_weather_data", "fetch_climate_data", "fetch_fishing_data"}

MemoTTL(fn) ==
    CASE fn = "fetch_weather_data" -> WeatherMemoTTL
      [] fn = "fetch_climate_data" -> ClimateMemoTTL
      [] OTHER -> FishingMemoTTL

\* the body of the function: the try statement around the service call
FetchBody(fn, up) ==
    IF fn = "fetch_weather_data"
        THEN LET data == FetchWeatherData(
                            IF up
                                THEN RegionalSummary([i \in 1..Len(Locations) |->
                                        [ok |-> TRUE, temperature |-> 10, humidity |-> 70]])
                                ELSE Raised("APIException"))
             IN  [source |-> data.source, status |-> data.status]
        ELSE IF up THEN [source |-> "api", status |-> "active"]
                   ELSE [source |-> "fallback", status |-> "fallback"]

NoEntry == [value |-> [source |-> "none", status |-> "none"], at |-> 0 - 1]

\* an st.cache_data that stores nothing
StCacheDataOff(entry, t_ttl, t, value) == [ret |-> value, memo |-> entry, ran |-> TRUE]

\* a call of a function under @st.cache_data(ttl=t_ttl) at time t: the entry
\* is returned while it is younger than the TTL, else the body runs and its
\* return value, whatever it is, becomes the entry
StCacheData(entry, t_ttl, t, value) ==
    IF entry # NoEntry /\ t - entry.at < t_ttl
        THEN [ret |-> entry.value, memo |-> entry, ran |-> FALSE]
        ELSE [ret |-> value, memo |-> [value |-> value, at |-> t], ran |-> TRUE]

\* the page calls the function
CallMemoised ==
    /\ rerun.fn \in MemoisedFunctions
    /\ LET r == StCacheData(memo, MemoTTL(rerun.fn), st_now,
                            FetchBody(rerun.fn, upstream_ok))
       IN
       /\ memo' = r.memo
       /\ rerun' = [fn |-> rerun.fn, calls |-> IF rerun.calls < 2 THEN rerun.calls + 1 ELSE 2,
                    at |-> st_now, up |-> upstream_ok, ret |-> r.ret, ran |-> r.ran,
                    prev |-> [up |-> rerun.up, ret |-> rerun.ret, ran |-> rerun.ran]]
    /\ UNCHANGED <<upstream_ok, st_now>>
    /\ UNCHANGED <<rqVars, clVars, dashVars, keyVars, thVars, sumVars, turtleVars, rtaVars>>

\* the service of the function stops answering
UpstreamFails ==
    /\ rerun.fn \in MemoisedFunctions
    /\ upstream_ok
    /\ upstream_ok' = FALSE
    /\ UNCHANGED <<memo, st_now, rerun>>
    /\ UNCHANGED <<rqVars, clVars, dashVars, keyVars, thVars, sumVars, turtleVars, rtaVars>>

\* the service of the function answers again
UpstreamRecovers ==
    /\ rerun.fn \in MemoisedFunctions
    /\ ~upstream_ok
    /\ upstream_ok' = TRUE
    /\ UNCHANGED <<memo, st_now, rerun>>
    /\ UNCHANGED <<rqVars, clVars, dashVars, keyVars, thVars, sumVars, turtleVars, rtaVars>>

\* half a TTL passes
MemoTick ==
    /\ rerun.fn \in MemoisedFunctions
    /\ st_now < MaxMemoSteps * (MemoTTL(rerun.fn) \div 2)
    /\ st_now' = st_now + (MemoTTL(rerun.fn) \div 2)
    /\ UNCHANGED <<memo, upstream_ok, rerun>>
    /\ UNCHANGED <<rqVars, clVars, dashVars, keyVars, thVars, sumVars, turtleVars, rtaVars>>

\* a new Streamlit process: nothing memoised, no call made
MemoInit ==
    /\ memo = NoEntry
    /\ upstream_ok \in BOOLEAN
    /\ st_now = 0
    /\ \E fn \in MemoisedFunctions :
        rerun = [fn |-> fn, calls |-> 0, at |-> 0, up |-> FALSE, ret |-> NoEntry.value,
                 ran |-> FALSE,
                 prev |-> [up |-> FALSE, ret |-> NoEntry.value, ran |-> FALSE]]

InitMemo ==
    MemoInit /\ RequestIdle /\ ClientsIdle /\ DashIdle /\ KeysIdle /\ ThreadsIdle
        /\ SummaryIdle /\ TurtlesIdle /\ AnalyticsIdle

NextMemo == CallMemoised \/ UpstreamFails \/ UpstreamRecovers \/ MemoTick

SpecMemo == InitMemo /\ [][NextMemo]_vars

(***************************************************************************)
(* ScottishMarineAPI.fetch_sea_turtles over every combination of answers   *)
(***************************************************************************)
\* a feature as query q returns it: its OBJECTID, and the rest of the record
TurtleFeature(id, q) == [OBJECTID |-> id, attributes |-> q]

\* the "features" lists a query can answer with
TurtleFeatureLists(q) ==
    {<<>>, <<TurtleFeature(1, q)>>, <<TurtleFeature(2, q), TurtleFeature(1, q)>>,
     <<TurtleFeature(1, q), TurtleFeature(1, q + 10)>>}

\* every combination of per-query outcomes
AllTurtleResults ==
    {r \in [1..NumTurtleQueries ->
              {QueryFailed} \cup UNION {{[ok |-> TRUE, features |-> f] :
                                            f \in TurtleFeatureLists(q)} :
                                        q \in 1..NumTurtleQueries}] :
        \A q \in 1..NumTurtleQueries :
            r[q].ok => r[q].features \in TurtleFeatureLists(q)}

\* fetch_sea_turtles() with no cache file, query q answered as results[q]
CallMergeTurtles ==
    /\ turtles.fn = "none"
    /\ LET r == FetchSeaTurtles(EmptyDict, TRUE, 0, turtles.results)
       IN  turtles' = [fn |-> "fetch_sea_turtles", results |-> turtles.results,
                       ret |-> r.ret, files |-> r.files]
    /\ UNCHANGED <<rqVars, clVars, dashVars, keyVars, thVars, sumVars, memoVars,
                   rtaVars>>

TurtlesInit ==
    \E results \in AllTurtleResults : turtles = [fn |-> "none", results |-> results]

InitTurtles ==
    TurtlesInit /\ RequestIdle /\ ClientsIdle /\ DashIdle /\ KeysIdle /\ ThreadsIdle
        /\ SummaryIdle /\ MemoIdle /\ AnalyticsIdle

NextTurtles == CallMergeTurtles

SpecTurtles == InitTurtles /\ [][NextTurtles]_vars

(***************************************************************************)
(* RealTimeAnalytics (analysis/gresearch_realtime/realtime_analytics.py).  *)
(* Temperatures are in tenths of a degree, loads in tenths of a kW and     *)
(* biomass in tenths of a kg/m2, so that the comparisons are on integers.  *)
(***************************************************************************)
\* largest window_size when the three streams are interleaved
MaxWindow == 2
\* readings per stream when the three streams are interleaved
MaxReadings == 3
\* readings of equal value that start a long stream
WarmUpReadings == 29
\* freely chosen readings that follow them
MaxTail == 2

\* `if len(self.turtle_window) >= 10` and `[-10:]`
TurtleMinReadings == 10
\* `if len(self.seaweed_window) >= 20` and `[-20:]`
SeaweedMinReadings == 20
\* `if len(self.whisky_window) >= 30` and `[-30:]`
CoolingMinReadings == 30
\* optimal_temp = 15.0, in tenths of a degree
OptimalTemp == 150
\* tolerance = 2.0
Tolerance == 20
\* the 3.0 of `abs(temp - optimal_temp) > 3.0`
CriticalDeviation == 30
\* predicted_peak * 0.9 with predicted_peak = max * 1.15, in thousandths
PeakFactorMilli == 1035
\* window_size of main(), and of a long stream that never fills the window
LongWindows == {30, 31}

Streams == {"turtle", "seaweed", "whisky"}

\* readings in the format of the docstrings; the timestamp is the arrival
\* number of the reading on its stream
TurtleReading(seq, count) == [timestamp |-> seq, count |-> count]
SeaweedReading(seq, biomass) == [timestamp |-> seq, biomass_kg_per_m2 |-> biomass]
WhiskyReading(seq, v) ==
    [timestamp |-> seq, warehouse_id |-> "EDI-W-001",
     ambient_temperature |-> v.ambient_temperature,
     cooling_load_kw |-> v.cooling_load_kw]

TurtleCounts == {15, 40}
SeaweedBiomass == {42, 0}
WhiskyTemperatures == {119, 120, 129, 130, 150, 170, 171, 180, 181}
CoolingLoads == {0, 100, 123}
WhiskyValues ==
    {[ambient_temperature |-> t, cooling_load_kw |-> l] :
        t \in WhiskyTemperatures, l \in CoolingLoads}
\* the values a long whisky stream starts with
WhiskyBaselines ==
    {[ambient_temperature |-> 150, cooling_load_kw |-> 100],
     [ambient_temperature |-> 150, cooling_load_kw |-> 0],
     [ambient_temperature |-> 130, cooling_load_kw |-> 123]}
\* the whisky values tried while the three streams are interleaved
WhiskyInterleaved ==
    {[ambient_temperature |-> 150, cooling_load_kw |-> 100],
     [ambient_temperature |-> 171, cooling_load_kw |-> 100]}

Abs(x) == IF x < 0 THEN 0 - x ELSE x

RECURSIVE SeqSum(_)
SeqSum(xs) == IF xs = <<>> THEN 0 ELSE Head(xs) + SeqSum(Tail(xs))

RECURSIVE SeqMax(_)
SeqMax(xs) ==
    IF Len(xs) = 1
        THEN Head(xs)
        ELSE LET m == SeqMax(Tail(xs)) IN IF Head(xs) > m THEN Head(xs) ELSE m

\* list(window)[-n:]
LastN(xs, n) == SubSeq(xs, IF Len(xs) > n THEN Len(xs) - n + 1 ELSE 1, Len(xs))

\* a deque that never discards
DequeAppendUnbounded(d, x, maxlen) == Append(d, x)

\* deque(maxlen=maxlen).append(x): a full deque discards its oldest item
DequeAppend(d, x, maxlen) ==
    IF maxlen = 0 THEN <<>>
    ELSE IF Len(d) >= maxlen THEN Append(Tail(d), x)
    ELSE Append(d, x)

\* abs(data['count'] - mean_count) > 2 * std_count over recent_counts, with
\* mean = S/n and std^2 = Q/n - (S/n)^2, both sides squared and times n^2
TurtleAnomaly(recent_counts, count) ==
    LET n == Len(recent_counts)
        S == SeqSum(recent_counts)
        Q == SeqSum([i \in DOMAIN recent_counts |-> recent_counts[i] * recent_counts[i]])
    IN  (n * count - S) * (n * count - S) > 4 * (n * Q - S * S)

\* np.polyfit(x, recent_biomass, 1)[0] < -0.1 with x = 0..n-1: the least
\* squares slope is (n Sxy - Sx Sy) / (n Sxx - Sx^2); biomass is in tenths
SeaweedDeclining(recent_biomass) ==
    LET n == Len(recent_biomass)
        Sx == SeqSum([i \in DOMAIN recent_biomass |-> i - 1])
        Sxx == SeqSum([i \in DOMAIN recent_biomass |-> (i - 1) * (i - 1)])
        Sy == SeqSum(recent_biomass)
        Sxy == SeqSum([i \in DOMAIN recent_biomass |-> (i - 1) * recent_biomass[i]])
    IN  n * Sxy - Sx * Sy < 0 - (n * Sxx - Sx * Sx)

\* a tolerance test that also fires on the boundary
ExceedsToleranceInclusive(temp) == Abs(temp - OptimalTemp) >= Tolerance

\* abs(temp - optimal_temp) > tolerance
ExceedsTolerance(temp) == Abs(temp - OptimalTemp) > Tolerance

\* the loads of the thirty readings before the current one
RecentLoadsBeforeCurrent(window) ==
    LET before == SubSeq(window, 1, Len(window) - 1)
        recent == LastN(before, CoolingMinReadings)
    IN  [i \in DOMAIN recent |-> recent[i].cooling_load_kw]

\* recent_loads: the loads of list(self.whisky_window)[-30:], the current
\* reading being in the window already
RecentLoads(window) ==
    LET recent == LastN(window, CoolingMinReadings)
    IN  [i \in DOMAIN recent |-> recent[i].cooling_load_kw]

\* data.get('cooling_load_kw', 0) > predicted_peak * 0.9
ApproachesPeak(load, recent_loads) == load * 1000 > SeqMax(recent_loads) * PeakFactorMilli

Alert(type, severity, data) == [type |-> type, severity |-> severity, data |-> data]

\* _update_statistics(stream_type, data), the stream's window being window
UpdateStatistics(stats, stream_type, window) ==
    LET old == IF stream_type \in DOMAIN stats
                  THEN stats[stream_type]
                  ELSE [count |-> 0, data_rate |-> Ratio(0, 1)]
    IN  DictSet(stats, stream_type,
                [count |-> old.count + 1,
                 data_rate |-> IF Len(window) >= 2
                                  THEN Ratio(Len(window), 5)
                                  ELSE old.data_rate])

\* whether the behaviour passes another reading to the stream
Accepts(stream) ==
    IF feed.kind = "interleaved"
        THEN Len(received[stream]) < MaxReadings
        ELSE feed.stream = stream /\ Len(received[stream]) < WarmUpReadings + MaxTail

\* the values the next reading of the stream is drawn from
Inputs(stream, short, long) ==
    IF feed.kind = "interleaved" THEN short
    ELSE IF Len(received[stream]) < WarmUpReadings THEN {feed.base}
    ELSE long

\* process_turtle_stream(data)
ProcessTurtleStream ==
    /\ Accepts("turtle")
    /\ \E count \in Inputs("turtle", TurtleCounts, TurtleCounts) :
        LET data == TurtleReading(Len(received.turtle) + 1, count)
            window == DequeAppend(turtle_window, data, window_size)
            recent == LastN(window, TurtleMinReadings)
            recent_counts == [i \in DOMAIN recent |-> recent[i].count]
        IN
        /\ turtle_window' = window
        /\ alerts' = IF Len(window) >= TurtleMinReadings
                         /\ TurtleAnomaly(recent_counts, count)
                         THEN Append(alerts, Alert("TURTLE_ANOMALY", "HIGH", data))
                         ELSE alerts
        /\ statistics' = UpdateStatistics(statistics, "turtle", window)
        /\ received' = [received EXCEPT !.turtle = Append(@, data)]
    /\ UNCHANGED <<window_size, seaweed_window, whisky_window, feed>>
    /\ UNCHANGED <<rqVars, clVars, dashVars, keyVars, thVars, sumVars, memoVars,
                   turtleVars>>

\* process_seaweed_stream(data)
ProcessSeaweedStream ==
    /\ Accepts("seaweed")
    /\ \E biomass \in Inputs("seaweed", SeaweedBiomass, SeaweedBiomass) :
        LET data == SeaweedReading(Len(received.seaweed) + 1, biomass)
            window == DequeAppend(seaweed_window, data, window_size)
            recent == LastN(window, SeaweedMinReadings)
            recent_biomass == [i \in DOMAIN recent |-> recent[i].biomass_kg_per_m2]
        IN
        /\ seaweed_window' = window
        /\ alerts' = IF Len(window) >= SeaweedMinReadings
                         /\ SeaweedDeclining(recent_biomass)
                         THEN Append(alerts, Alert("SEAWEED_DECLINE", "MEDIUM", data))
                         ELSE alerts
        /\ statistics' = UpdateStatistics(statistics, "seaweed", window)
        /\ received' = [received EXCEPT !.seaweed = Append(@, data)]
    /\ UNCHANGED <<window_size, turtle_window, whisky_window, feed>>
    /\ UNCHANGED <<rqVars, clVars, dashVars, keyVars, thVars, sumVars, memoVars,
                   turtleVars>>

\* process_whisky_stream(data)
ProcessWhiskyStream ==
    /\ Accepts("whisky")
    /\ \E v \in Inputs("whisky", WhiskyInterleaved, WhiskyValues) :
        LET data == WhiskyReading(Len(received.whisky) + 1, v)
            window == DequeAppend(whisky_window, data, window_size)
            temp == data.ambient_temperature
            severity == IF Abs(temp - OptimalTemp) > CriticalDeviation
                           THEN "CRITICAL" ELSE "MEDIUM"
            after_temperature ==
                IF ExceedsTolerance(temp)
                    THEN Append(alerts, Alert("WAREHOUSE_TEMPERATURE", severity, data))
                    ELSE alerts
        IN
        /\ whisky_window' = window
        /\ alerts' = IF Len(window) >= CoolingMinReadings
                         /\ ApproachesPeak(data.cooling_load_kw, RecentLoads(window))
                         THEN Append(after_temperature,
                                     Alert("COOLING_CAPACITY", "LOW", data))
                         ELSE after_temperature
        /\ statistics' = UpdateStatistics(statistics, "whisky", window)
        /\ received' = [received EXCEPT !.whisky = Append(@, data)]
    /\ UNCHANGED <<window_size, turtle_window, seaweed_window, feed>>
    /\ UNCHANGED <<rqVars, clVars, dashVars, keyVars, thVars, sumVars, memoVars,
                   turtleVars>>

\* the ways the readings of a behaviour are chosen: the three streams
\* interleaved with a few readings each, or one long stream that starts
\* with WarmUpReadings equal readings
Feeds ==
    {[kind |-> "interleaved"]}
        \cup {[kind |-> "long", stream |-> "turtle", base |-> c] : c \in TurtleCounts}
        \cup {[kind |-> "long", stream |-> "seaweed", base |-> b] : b \in SeaweedBiomass}
        \cup {[kind |-> "long", stream |-> "whisky", base |-> v] : v \in WhiskyBaselines}

\* RealTimeAnalytics(window_size)
AnalyticsInit ==
    /\ feed \in Feeds
    /\ window_size \in (IF feed.kind = "interleaved" THEN 0..MaxWindow ELSE LongWindows)
    /\ turtle_window = <<>>
    /\ seaweed_window = <<>>
    /\ whisky_window = <<>>
    /\ alerts = <<>>
    /\ statistics = EmptyDict
    /\ received = [turtle |-> <<>>, seaweed |-> <<>>, whisky |-> <<>>]

InitAnalytics ==
    AnalyticsInit /\ RequestIdle /\ ClientsIdle /\ DashIdle /\ KeysIdle /\ ThreadsIdle
        /\ SummaryIdle /\ MemoIdle /\ TurtlesIdle

NextAnalytics == ProcessTurtleStream \/ ProcessSeaweedStream \/ ProcessWhiskyStream

SpecAnalytics == InitAnalytics /\ [][NextAnalytics]_vars

(***************************************************************************)
(* Properties of _make_request (checked under SpecRequest)                 *)
(***************************************************************************)
Last(s) == s[Len(s)]

RECURSIVE Pow(_, _)
Pow(b, e) == IF e = 0 THEN 1 ELSE b * Pow(b, e - 1)

AllTimeouts == \A i \in DOMAIN outcomes : outcomes[i].kind = "timeout"

AllRetryable == \A i \in DOMAIN outcomes : IsRetryable(outcomes[i])

\* C1 (retry bound): with max_attempts = n >= 1 and every attempt timing out,
\* the call is still running while fewer than n attempts were made, makes no
\* more than n attempts, and ends after exactly n attempts by raising the
\* timeout APIException, never with a response.
C1_RetryBound ==
    (max_attempts >= 1 /\ AllTimeouts) =>
        /\ Len(outcomes) <= max_attempts
        /\ (rq_state = "running") <=> (Len(outcomes) < max_attempts)
        /\ rq_state # "running" =>
              /\ rq_state = "raised"
              /\ rq_error = "timeout"
              /\ rq_response = 0
              /\ Len(outcomes) = max_attempts

C1_Witness ==
    /\ max_attempts = 3
    /\ Len(outcomes) = 3
    /\ AllTimeouts
    /\ rq_state = "raised"
    /\ rq_error = "timeout"

\* C2 (no retry on client error): an attempt answered with HTTP 400/401/403/404
\* is the last attempt of the call, which ends by raising the client-error
\* APIException; when it is the first attempt, exactly one attempt was made and
\* nothing was slept.
C2_NoRetryOnClientError ==
    \A i \in DOMAIN outcomes :
        IsClientError(outcomes[i]) =>
            /\ i = Len(outcomes)
            /\ rq_state = "raised"
            /\ rq_error = "client_error"
            /\ (i = 1 => sleeps = <<>>)

C2_Witness ==
    /\ max_attempts = 3
    /\ outcomes = <<[kind |-> "http", status |-> 401]>>
    /\ rq_state = "raised"
    /\ rq_error = "client_error"
    /\ sleeps = <<>>

\* C3 (retry then success): while the k attempts made so far all failed with
\* retryable errors (timeout, 5xx, network error, in any mix) and k <
\* max_attempts, the call goes on to attempt k+1; and when attempt k+1
\* succeeds the call returns the response of that attempt, after exactly k+1
\* attempts and k sleeps.
C3_RetryThenSuccess ==
    max_attempts >= 1 =>
        /\ (AllRetryable /\ Len(outcomes) < max_attempts) =>
              /\ rq_state = "running"
              /\ attempt = Len(outcomes)
        /\ (outcomes # <<>> /\ IsSuccess(Last(outcomes))) =>
              /\ rq_state = "returned"
              /\ rq_response = Len(outcomes)
              /\ Len(sleeps) = Len(outcomes) - 1
              /\ \A i \in 1..(Len(outcomes) - 1) : IsRetryable(outcomes[i])

C3_Witness ==
    /\ max_attempts = 3
    /\ outcomes = <<[kind |-> "http", status |-> 503],
                    [kind |-> "http", status |-> 503],
                    [kind |-> "http", status |-> 200]>>
    /\ rq_state = "returned"
    /\ rq_response = 3

\* C4 (exponential backoff): there is a backoff multiplier m such that the wait
\* after the k-th failed retryable attempt is base_delay * m^(k-1), for every
\* max_attempts, and nothing is slept after the final failed attempt.
C4_ExponentialBackoff ==
    /\ \E m \in 1..MaxMultiplier :
          \A k \in DOMAIN sleeps : sleeps[k] = API_RETRY_DELAY * Pow(m, k - 1)
    /\ rq_state = "raised" => Len(sleeps) = Len(outcomes) - 1

\* C5 (network error = timeout for retry purposes): an attempt that ends in a
\* network-level exception moves the call exactly as the timeout handler
\* would: same attempt counter, same sleep before the next attempt, and an
\* APIException raised if and only if it was the last allowed attempt.
C5_NetworkErrorLikeTimeout ==
    [][(/\ Len(outcomes') = Len(outcomes) + 1
        /\ Last(outcomes').kind = "network")
          => LET t == TimeoutHandler(attempt, max_attempts) IN
              /\ (rq_state' = "raised") <=> (attempt = max_attempts - 1)
              /\ (t.act = "sleep") =>
                    /\ rq_state' = "running"
                    /\ attempt' = attempt + 1
                    /\ sleeps' = Append(sleeps, t.delay)
              /\ (t.act = "raise") =>
                    /\ rq_state' = "raised"
                    /\ rq_error' # "none"
                    /\ attempt' = attempt
                    /\ sleeps' = sleeps]_vars

C5_Witness ==
    /\ max_attempts = 3
    /\ Len(outcomes) = 3
    /\ \A i \in DOMAIN outcomes : outcomes[i].kind = "network"
    /\ sleeps = <<RetryDelay(0), RetryDelay(1)>>
    /\ rq_state = "raised"
    /\ rq_error = "request_failed"

\* the kind of APIException that the handler of outcome o raises
ExceptionKind(o) ==
    CASE o.kind = "timeout" -> "timeout"
      [] o.kind = "http" /\ o.status >= 500 -> "server_error"
      [] o.kind = "http" -> "client_error"
      [] OTHER -> "request_failed"

\* C21 (two-way sum and termination): for every max_attempts >= 1 and every
\* sequence of per-attempt outcomes, _make_request makes at most max_attempts
\* attempts and ends, and its outcome is the response of its last attempt or
\* an APIException of the kind of its last attempt; there is no third
\* outcome.
C21_TwoWaySumAndTermination ==
    /\ [](max_attempts >= 1 =>
            /\ Len(outcomes) <= max_attempts
            /\ rq_state \in {"running", "returned", "raised"}
            /\ rq_state = "running" =>
                  /\ Len(outcomes) < max_attempts
                  /\ rq_error = "none"
                  /\ rq_response = 0
            /\ rq_state = "returned" =>
                  /\ IsSuccess(Last(outcomes))
                  /\ rq_response = Len(outcomes)
                  /\ rq_error = "none"
            /\ rq_state = "raised" =>
                  /\ ~IsSuccess(Last(outcomes))
                  /\ rq_error = ExceptionKind(Last(outcomes))
                  /\ rq_response = 0)
    /\ (max_attempts >= 1 => <>(rq_state \in {"returned", "raised"}))

C21_Witness ==
    /\ max_attempts = 4
    /\ Len(outcomes) = 4
    /\ rq_state = "raised"
    /\ rq_error = "server_error"
    /\ outcomes[1].kind = "network"
    /\ outcomes[2].kind = "timeout"

(***************************************************************************)
(* Properties of the caches (checked under SpecClients)                    *)
(***************************************************************************)

\* the age, when the last call began, of the entry it was about
AgeAtCall == call.at - call.stored_at

\* C6 (cache hit determinism): after _set_cached(k, p) at time s with no later
\* _set_cached(k, .), a _get_cached(k, t) with t > 0 at a time u with
\* u - s < t returns exactly p.
C6_CacheHitDeterminism ==
    (/\ instance = "APIService"
     /\ call.op = "_get_cached"
     /\ ttl > 0
     /\ call.stored_at # NoStamp
     /\ AgeAtCall < ttl)
        => call.ret = last_put[call.key].data

C6_Witness ==
    /\ instance = "APIService"
    /\ call.op = "_get_cached"
    /\ ttl = 2
    /\ call.stored_at # NoStamp
    /\ AgeAtCall = 1
    /\ call.ret = [source |-> "caller", region |-> "-", data |-> "p2"]

\* C7 (TTL expiry): a lookup at age >= ttl is a miss, never the stale
\* payload: _get_cached returns None whenever now - stored_at >= ttl, age =
\* ttl included; _is_cache_valid is false whenever the file's age >=
\* cache_duration, so get_current_weather fetches and a successful fetch's
\* result is what it returns.
C7_TTLExpiry ==
    /\ (/\ instance = "APIService"
        /\ call.op = "_get_cached"
        /\ call.stored_at # NoStamp
        /\ AgeAtCall >= ttl)
           => call.ret = None
    /\ instance = "OpenWeatherAPI" =>
          \A path \in DOMAIN last_put :
              now - last_put[path].at >= ttl => ~IsCacheValid(files, path, ttl, now)
    /\ (/\ instance = "OpenWeatherAPI"
        /\ call.op = "get_current_weather"
        /\ call.stored_at # NoStamp
        /\ AgeAtCall >= ttl)
           => /\ call.fetches = 1
              /\ call.up.ok =>
                    /\ call.error = "none"
                    /\ call.ret = ProcessWeatherData(call.up.data, call.key[1])

C7_Witness ==
    /\ instance = "APIService"
    /\ call.op = "_get_cached"
    /\ ttl = 2
    /\ call.stored_at # NoStamp
    /\ AgeAtCall = ttl
    /\ call.ret = None
    /\ call.key \notin DOMAIN cache

\* C8 (last put wins): after any sequence of stores on a key, the stored
\* payload and timestamp are those of the most recent store, so the TTL
\* window is counted from it and a lookup never returns an earlier payload;
\* _write_cache likewise replaces the file and its modification time.
C8_LastPutWins ==
    /\ instance = "APIService" =>
          /\ \A k \in DOMAIN cache :
                /\ k \in DOMAIN last_put
                /\ k \in DOMAIN cache_timestamps
                /\ cache[k] = last_put[k].data
                /\ cache_timestamps[k] = last_put[k].at
          /\ call.op = "_set_cached" =>
                /\ call.key \in DOMAIN cache
                /\ cache_timestamps[call.key] = call.at
          /\ (call.op = "_get_cached" /\ call.ret # None) =>
                /\ call.ret = last_put[call.key].data
                /\ call.at - last_put[call.key].at < ttl
    /\ instance = "OpenWeatherAPI" =>
          /\ \A path \in DOMAIN files :
                /\ path \in DOMAIN last_put
                /\ files[path] = [data |-> last_put[path].data, mtime |-> last_put[path].at]
          /\ call.wrote =>
                /\ call.key \in DOMAIN files
                /\ files[call.key] = [data |-> call.ret, mtime |-> call.at]

C8_Witness ==
    /\ instance = "APIService"
    /\ call.op = "_set_cached"
    /\ call.stored_at # NoStamp
    /\ call.stored_at < call.at
    /\ cache_timestamps[call.key] = call.at
    /\ cache[call.key] = [source |-> "caller", region |-> "-", data |-> "p1"]

\* the operations that resolve a key through a cache and an upstream fetch
FetchOps ==
    {"get_current_weather", "get_forecast", "get_datasets", "fetch_all_species",
     "fetch_marine_habitats",
     "fetch_sea_turtles", "fetch_all_species(cache=False)",
     "fetch_marine_habitats(cache=False)", "fetch_sea_turtles(cache=False)"}

\* the call is the same operation on the same key as the call before it
RepeatsPrev == prev.op = call.op /\ prev.key = call.key

\* C9 (no negative caching): in every cached fetch operation an upstream
\* fetch that fails writes no cache entry, so the first call after the
\* upstream recovers performs a real fetch and returns the live data.
C9_NoNegativeCaching ==
    call.op \in FetchOps =>
        /\ (call.fetches > 0 /\ ~call.up.ok) => ~call.wrote
        /\ (/\ RepeatsPrev
            /\ prev.fetches > 0
            /\ ~prev.up_ok
            /\ call.up.ok) =>
               /\ call.fetches > 0
               /\ (call.error = "none" /\ instance = "OpenWeatherAPI") =>
                      call.ret = ProcessWeatherData(call.up.data, call.key[1])
               /\ (call.error = "none"
                       /\ instance \in {"WeatherbitService", "NOAAService"}) =>
                      call.ret.data = call.up.data
               /\ call.error = "none" => call.wrote

\* C10 (idempotence of repeated resolve): two calls of a cached service
\* method with the same arguments in immediate succession, the upstream
\* answering both successfully, perform at most one real network call.
C10_RepeatedResolveIdempotent ==
    (/\ call.op \in {"get_current_weather", "get_datasets", "fetch_all_species"}
     /\ RepeatsPrev
     /\ prev.at = call.at
     /\ prev.error = "none"
     /\ prev.up_ok
     /\ call.up.ok) =>
        prev.fetches + call.fetches <= 1

(***************************************************************************)
(* Properties of the failure paths (checked under SpecClients)             *)
(***************************************************************************)
\* the last call was a weather or forecast call whose upstream fetch failed
WeatherFetchFailed ==
    /\ instance \in {"OpenWeatherAPI", "OpenWeatherAPI.get_forecast"}
    /\ call.op \in {"get_current_weather", "get_forecast"}
    /\ call.fetches = 1
    /\ ~call.up.ok

\* C11 (stale on failure): when the upstream fetch of get_current_weather or
\* get_forecast fails and a cache file for the key exists, the call returns
\* the content of that file whatever its age, and the static fallback is
\* returned only when no cache file exists.
C11_StaleOnFailure ==
    WeatherFetchFailed =>
        /\ ~call.wrote
        /\ call.key \in DOMAIN files =>
              /\ call.error = "none"
              /\ call.ret = files[call.key].data
              /\ call.ret = last_put[call.key].data
        /\ (call.error = "none" /\ call.ret = FallbackData(call.key[1])) =>
              call.key \notin DOMAIN files

C11_Witness ==
    /\ WeatherFetchFailed
    /\ call.op = "get_current_weather"
    /\ call.key \in DOMAIN files
    /\ call.at - files[call.key].mtime >= ttl
    /\ call.ret = ProcessWeatherData("w1", "edinburgh")

\* C12 (fallback monotonicity): for every region argument and every upstream
\* outcome, get_current_weather returns a payload (fresh data, the most
\* recent cache value or the fixed fallback) and never raises.
C12_FallbackMonotonicity ==
    (instance = "OpenWeatherAPI" /\ call.op = "get_current_weather") =>
        /\ call.error = "none"
        /\ \/ call.up.ok /\ call.ret = ProcessWeatherData(call.up.data, call.key[1])
           \/ call.key \in DOMAIN last_put /\ call.ret = last_put[call.key].data
           \/ call.ret = FallbackData(call.key[1])

\* the "source" of a payload fetched from the live API
LiveSource == ProcessWeatherData("w1", "edinburgh").source

\* C14 (degraded results are distinguishable): every payload that
\* get_current_weather returns after its upstream fetch failed, a stale cache
\* entry or the static fallback, carries a source annotation that differs
\* from the one of a payload freshly fetched from the live API.
C14_DegradedDistinguishable ==
    (/\ WeatherFetchFailed
     /\ call.op = "get_current_weather"
     /\ call.error = "none") =>
        call.ret.source # LiveSource

\* C15 (client errors never silently fall back): whenever the upstream
\* answers a request with HTTP 4xx, the caller of the client receives a hard
\* failure, never a stale-cache or fallback payload as a normal result.
C15_ClientErrorIsHardFailure ==
    /\ (/\ instance \in {"WeatherbitService", "NOAAService"}
        /\ call.fetches = 1
        /\ call.up.data = "client_error") =>
           call.error = "APIException"
    /\ (/\ instance \in {"OpenWeatherAPI", "OpenWeatherAPI.get_forecast"}
        /\ call.fetches = 1
        /\ call.up.data = "http404") =>
           call.error # "none"

\* C19 (static fallback on failure without cache): when the upstream fetch
\* fails and no cache entry exists for the key, get_current_weather and
\* get_forecast both return a statically defined fallback payload marked as
\* degraded, not an error.
C19_StaticFallbackWithoutCache ==
    (WeatherFetchFailed /\ call.key \notin DOMAIN files) =>
        /\ call.error = "none"
        /\ call.ret # ErrorDict
        /\ call.ret.data = FallbackData(call.key[1]).data
        /\ call.ret.source # LiveSource

\* a step in which a service method is called and ends in an exception
ServiceCallRaises ==
    /\ instance \in {"WeatherbitService", "NOAAService"}
    /\ now' = now
    /\ call'.error # "none"

\* C18, as stated (a failed request leaves the cache as it was): if a cached
\* service call ends in an exception, _cache and _cache_timestamps after the
\* call equal their values before the call.
C18_FailedCallLeavesCacheEqual ==
    [][ServiceCallRaises =>
          /\ cache' = cache
          /\ cache_timestamps' = cache_timestamps]_vars

\* C18, amended: a service call that ends in an exception stores nothing and
\* changes no entry; the one thing it may do to the dictionaries is remove
\* the entry of its own key, and only if that entry had expired.
C18_FailedCallStoresNothing ==
    [][ServiceCallRaises =>
          /\ DOMAIN cache' \subseteq DOMAIN cache
          /\ DOMAIN cache_timestamps' \subseteq DOMAIN cache_timestamps
          /\ \A k \in DOMAIN cache' :
                /\ cache'[k] = cache[k]
                /\ k \in DOMAIN cache_timestamps'
                /\ cache_timestamps'[k] = cache_timestamps[k]
          /\ \A k \in DOMAIN cache \ DOMAIN cache' :
                /\ k = call'.key
                /\ k \notin DOMAIN cache_timestamps'
                /\ now - cache_timestamps[k] >= ttl]_vars

C18_Witness ==
    /\ instance = "WeatherbitService"
    /\ call.error = "APIException"
    /\ call.fetches = 1
    /\ call.stored_at # NoStamp
    /\ call.at - call.stored_at >= ttl
    /\ call.key \notin DOMAIN cache
    /\ cache # EmptyDict

\* C20 (cached marine data expires): in fetch_all_species, fetch_sea_turtles
\* and fetch_marine_habitats called with cache=True, a cached file is served
\* only until a time-to-live elapses: there is a time-to-live such that a
\* call finding the file at that age or older fetches from the upstream.
C20_MarineCacheExpires ==
    (/\ call.op \in {"fetch_all_species", "fetch_sea_turtles", "fetch_marine_habitats"}
     /\ call.stored_at # NoStamp) =>
        \E time_to_live \in 1..MaxTime :
            AgeAtCall >= time_to_live => call.fetches > 0

(***************************************************************************)
(* Properties of the dashboard (checked under SpecDashboard)               *)
(***************************************************************************)
DashSources == {"weather", "climate", "fishing"}

\* C13 (fallback scenario with degraded flag): when the weather service call
\* fails, fetch_weather_data returns the static fallback (average temperature
\* 8.5, average humidity 75) with status 'fallback', and otherwise the
\* summary with status 'active'; in fetch_all_data every source's payload is
\* populated, its status is 'fallback' exactly when its service call raised
\* and 'active' exactly when it succeeded, and a failed weather call gives
\* the same static averages.
C13_FallbackWithDegradedFlag ==
    /\ dash.fn = "fetch_weather_data" =>
          /\ dash.raised.weather =>
                /\ dash.data.weather.status = "fallback"
                /\ dash.data.weather.avg_temperature.num * 10
                       = 85 * dash.data.weather.avg_temperature.den
                /\ dash.data.weather.avg_humidity.num
                       = 75 * dash.data.weather.avg_humidity.den
          /\ ~dash.raised.weather =>
                /\ dash.data.weather.status = "active"
                /\ dash.data.weather.count = dash.value.weather.count
                /\ dash.data.weather.avg_temperature = dash.value.weather.avg_temperature
    /\ dash.fn = "fetch_all_data" =>
          /\ \A src \in DashSources :
                /\ dash.data[src] # None
                /\ dash.data.status[src] = "fallback" <=> dash.raised[src]
                /\ dash.data.status[src] = "active" <=> ~dash.raised[src]
          /\ dash.raised.weather =>
                /\ dash.data.weather.avg_temperature.num * 10
                       = 85 * dash.data.weather.avg_temperature.den
                /\ dash.data.weather.avg_humidity.num
                       = 75 * dash.data.weather.avg_humidity.den
          /\ ~dash.raised.weather => dash.data.weather = dash.value.weather

C13_Witness ==
    /\ dash.fn = "fetch_all_data"
    /\ dash.raised = [weather |-> TRUE, climate |-> FALSE, fishing |-> TRUE]
    /\ dash.data.status = [weather |-> "fallback", climate |-> "active",
                           fishing |-> "fallback"]
    /\ dash.data.weather.avg_temperature = Ratio(17, 2)

(***************************************************************************)
(* Properties of _get_cache_key (checked under SpecCacheKey)               *)
(***************************************************************************)
\* C16 (cache key canonicity): two calls whose keyword arguments form the
\* same name-to-value mapping get the same key whatever the order in which
\* the arguments were passed, and different mappings get different keys.
C16_CacheKeyCanonicity ==
    ck.done => (Mapping(ck.a) = Mapping(ck.b) <=> ck.key_a = ck.key_b)

C16_Witness ==
    /\ ck.done
    /\ Len(ck.a) = 3
    /\ Len(ck.b) = 3
    /\ ck.a # ck.b
    /\ ck.a[1].name = ck.b[3].name
    /\ Mapping(ck.a) = Mapping(ck.b)
    /\ ck.key_a = ck.key_b

(***************************************************************************)
(* Properties of the threads (checked under SpecThreads)                   *)
(***************************************************************************)
\* C17 (concurrent cache safety): under every interleaving of the dictionary
\* operations of two threads in _get_cached and _set_cached on one key, no
\* call raises, and _get_cached returns None or a payload stored for the key,
\* judged against the timestamp of that same store.
C17_ConcurrentCacheSafety ==
    \A t \in Threads :
        /\ threads[t].error = "none"
        /\ (threads[t].op = "_get_cached" /\ threads[t].ret # None) =>
              [data |-> threads[t].ret, at |-> threads[t].timestamp] \in stores

(***************************************************************************)
(* Properties of get_all_regions_summary (checked under SpecSummary)       *)
(***************************************************************************)
\* C22 (all five regions are always reported): for every combination of
\* per-region upstream outcomes and cache states, get_all_regions_summary
\* returns, and the key set of its 'regions' map is exactly the five
\* configured regions.
C22_AllFiveRegionsReported ==
    summary.fn = "get_all_regions_summary" =>
        /\ summary.error = "none"
        /\ DOMAIN summary.regions = Regions
        /\ Cardinality(DOMAIN summary.regions) = 5

\* a call in which every region's upstream failed, each kind of failure
\* occurred, and no cache file existed
C22_Witness ==
    /\ summary.fn = "get_all_regions_summary"
    /\ summary.failures = {"timeout", "connection", "http404", "http500"}
    /\ summary.before = EmptyDict
    /\ \A r \in Regions : summary.regions[r] = FallbackData(r)

(***************************************************************************)
(* Properties of the services' credentials (checked under SpecClients)     *)
(***************************************************************************)
\* the service methods that test the API key or token
KeyedOps == {"get_current_weather", "get_datasets", "get_climate_data",
             "get_fishing_events"}

KeyedInstances == {"WeatherbitService", "NOAAService", "NOAAService.get_climate_data",
                   "GlobalFishingWatchService"}

\* C23 (missing credentials fail fast): when the API key or token is not
\* configured and the cache holds no unexpired entry for the request,
\* get_current_weather, get_datasets, get_climate_data and get_fishing_events
\* raise APIException without calling _make_request.
C23_MissingCredentialsFailFast ==
    (/\ instance \in KeyedInstances
     /\ call.op \in KeyedOps
     /\ ~api_key
     /\ (call.stored_at = NoStamp \/ ~Fresh(call.stored_at, ttl, call.at))) =>
        /\ call.error = "APIException"
        /\ call.ret = None
        /\ call.fetches = 0
        /\ ~call.wrote

\* the token is missing and the upstream would have answered with content
C23_Witness ==
    /\ instance = "GlobalFishingWatchService"
    /\ call.op = "get_fishing_events"
    /\ ~api_key
    /\ call.up.ok
    /\ call.up.data = "d1"
    /\ call.error = "APIException"
    /\ call.fetches = 0
    /\ prev.op = "get_fishing_events"

(***************************************************************************)
(* Properties of the memoised fetch functions (checked under SpecMemo)     *)
(***************************************************************************)
\* C24 (dashboard-level fallback does not mask recovery): after a memoised
\* fetch function has returned a fallback payload because its upstream
\* failed, the next call, made when the upstream has recovered, returns live
\* data with status 'active' rather than the memoised fallback.
C24_FallbackDoesNotMaskRecovery ==
    (/\ rerun.calls >= 2
     /\ rerun.prev.ran
     /\ ~rerun.prev.up
     /\ rerun.prev.ret.status = "fallback"
     /\ rerun.up) =>
        /\ rerun.ret.status = "active"
        /\ rerun.ret.source = "api"

(***************************************************************************)
(* Properties of get_scottish_regional_summary (checked under              *)
(* SpecDashboard)                                                          *)
(***************************************************************************)
\* the locations whose get_current_weather returned a result
Yielded(ws) == {i \in 1..Len(Locations) : ws[i].ok}

\* the indices of the locations listed in 'regions'
Listed(regions) == {i \in 1..Len(Locations) : \E j \in DOMAIN regions : regions[j] = Locations[i]}

\* the sum of a field over the entries is, a null field counting as nothing
RECURSIVE FieldSum(_, _, _)
FieldSum(ws, is, field) ==
    IF is = {}
        THEN 0
        ELSE LET i == CHOOSE x \in is : TRUE
                 v == IF field = "temperature" THEN ws[i].temperature ELSE ws[i].humidity
             IN  (IF v = NullField THEN 0 ELSE v) + FieldSum(ws, is \ {i}, field)

\* C25 (regional summary aggregates exactly the listed regions): for every
\* combination of per-location outcomes, get_scottish_regional_summary
\* raises APIException iff no location yielded a result, and otherwise
\* 'count' is the number of entries in 'regions' and avg_temperature and
\* avg_humidity are the sums of temperature and humidity over exactly those
\* entries divided by count.
C25_SummaryAggregatesListedRegions ==
    dash.fn = "get_scottish_regional_summary" =>
        /\ dash.result.raised <=> Yielded(dash.ws) = {}
        /\ dash.result.raised => dash.result.error = "APIException"
        /\ ~dash.result.raised =>
            LET v == dash.result.value
                n == Len(v.regions)
            IN  /\ v.count = n
                /\ Listed(v.regions) = Yielded(dash.ws)
                /\ v.avg_temperature =
                       Ratio(FieldSum(dash.ws, Listed(v.regions), "temperature"), n)
                /\ v.avg_humidity =
                       Ratio(FieldSum(dash.ws, Listed(v.regions), "humidity"), n)

(***************************************************************************)
(* Properties of the turtle query merge (checked under SpecTurtles)        *)
(***************************************************************************)
\* the positions <<q, k>> of the features the successful queries returned
Positions(results) ==
    {p \in (1..NumTurtleQueries) \X (1..2) :
        results[p[1]].ok /\ p[2] \in DOMAIN results[p[1]].features}

FeatureAt(results, p) == results[p[1]].features[p[2]]

\* position p comes before position r in query order
Before(p, r) == p[1] < r[1] \/ (p[1] = r[1] /\ p[2] < r[2])

\* the first feature with this OBJECTID in query order
FirstSeen(results, id) ==
    LET ps == {p \in Positions(results) : FeatureAt(results, p).OBJECTID = id}
    IN  FeatureAt(results, CHOOSE p \in ps : \A r \in ps \ {p} : Before(p, r))

\* C26 (turtle query merge): for every combination of per-query outcomes,
\* fetch_sea_turtles skips a failing query without aborting the remaining
\* ones; its result holds no two records with the same OBJECTID and holds,
\* for every OBJECTID a successful query returned, exactly one record, the
\* first one seen in query order.
C26_TurtleQueryMerge ==
    turtles.fn = "fetch_sea_turtles" =>
        LET ret == turtles.ret
            results == turtles.results
            ids == {FeatureAt(results, p).OBJECTID : p \in Positions(results)}
        IN  /\ \A i, j \in DOMAIN ret : i # j => ret[i].OBJECTID # ret[j].OBJECTID
            /\ {ret[i].OBJECTID : i \in DOMAIN ret} = ids
            /\ \A id \in ids :
                  /\ Cardinality({i \in DOMAIN ret : ret[i].OBJECTID = id}) = 1
                  /\ \E i \in DOMAIN ret : ret[i] = FirstSeen(results, id)
            /\ turtles.files[TurtlesFile].data = ret

\* queries 1 and 3 fail, query 2 returns two turtles, and query 4 returns one
\* of them again, twice
C26_Witness ==
    /\ turtles.fn = "fetch_sea_turtles"
    /\ ~turtles.results[1].ok
    /\ turtles.results[2].features = <<TurtleFeature(2, 2), TurtleFeature(1, 2)>>
    /\ ~turtles.results[3].ok
    /\ turtles.results[4].features = <<TurtleFeature(1, 4), TurtleFeature(1, 14)>>
    /\ turtles.results[5].ok
    /\ turtles.ret = <<TurtleFeature(2, 2), TurtleFeature(1, 2)>>

(***************************************************************************)
(* Properties of the two cache dictionaries (checked under SpecClients)    *)
(***************************************************************************)
\* C27 (cache maps stay aligned): in single-threaded use, after any sequence
\* of _set_cached and _get_cached calls, with any ttl values and any clock
\* advance, the key set of _cache equals the key set of _cache_timestamps,
\* and a key whose lookup found it expired is absent from both.
C27_CacheMapsAligned ==
    instance = AnyTTLInstance =>
        /\ DOMAIN cache = DOMAIN cache_timestamps
        /\ (call.op = "_get_cached" /\ call.found = "expired") =>
              /\ call.ret = None
              /\ call.error = "none"
              /\ call.key \notin DOMAIN cache
              /\ call.key \notin DOMAIN cache_timestamps

\* a lookup with a positive TTL found an entry expired while the entry of
\* the other key stays
C27_Witness ==
    /\ instance = AnyTTLInstance
    /\ call.op = "_get_cached"
    /\ call.found = "expired"
    /\ call.ttl = 1
    /\ call.at - call.stored_at = 1
    /\ DOMAIN cache = CacheKeys \ {call.key}
    /\ DOMAIN cache_timestamps = CacheKeys \ {call.key}

(***************************************************************************)
(* Properties of RealTimeAnalytics (checked under SpecAnalytics)           *)
(***************************************************************************)
WindowOf(stream) ==
    CASE stream = "turtle" -> turtle_window
      [] stream = "seaweed" -> seaweed_window
      [] OTHER -> whisky_window

Min(a, b) == IF a < b THEN a ELSE b

\* C28 (sliding windows are bounded): after any sequence of process_*_stream
\* calls on a RealTimeAnalytics of window_size w, each window holds at most w
\* readings, namely the min(w, number received) most recent readings of its
\* stream in arrival order, and statistics[stream]['count'] is the number of
\* readings received on the stream.
C28_SlidingWindowsBounded ==
    \A stream \in Streams :
        LET window == WindowOf(stream)
            n == Len(received[stream])
        IN  /\ Len(window) <= window_size
            /\ Len(window) = Min(window_size, n)
            /\ window = SubSeq(received[stream], n - Len(window) + 1, n)
            /\ IF n = 0
                  THEN stream \notin DOMAIN statistics
                  ELSE statistics[stream].count = n

\* every stream has received more readings than the window holds
C28_Witness ==
    /\ feed.kind = "interleaved"
    /\ window_size = 2
    /\ \A stream \in Streams :
          /\ Len(received[stream]) = 3
          /\ Len(WindowOf(stream)) = 2
          /\ WindowOf(stream)[1].timestamp = 2
          /\ statistics[stream].count = 3

\* the alerts of the given type among the alerts appended by the last step
NewAlerts(before, after, type) ==
    {i \in (Len(before) + 1)..Len(after) : after[i].type = type}

\* C29 (warehouse temperature alerting): a process_whisky_stream call appends
\* exactly one WAREHOUSE_TEMPERATURE alert iff the reading's
\* ambient_temperature deviates from 15.0 by more than 2.0, CRITICAL iff the
\* deviation is more than 3.0 and MEDIUM otherwise; a reading within 2.0 of
\* 15.0, 13.0 and 17.0 included, appends none, and the existing alerts are
\* neither removed nor reordered.
C29_WarehouseTemperatureAlerting ==
    [][received'.whisky # received.whisky =>
        LET data == Last(received'.whisky)
            deviation == Abs(data.ambient_temperature - 150)
            new == NewAlerts(alerts, alerts', "WAREHOUSE_TEMPERATURE")
        IN  /\ Len(alerts') >= Len(alerts)
            /\ SubSeq(alerts', 1, Len(alerts)) = alerts
            /\ Cardinality(new) = (IF deviation > 20 THEN 1 ELSE 0)
            /\ \A i \in new :
                  /\ alerts'[i].severity = (IF deviation > 30 THEN "CRITICAL" ELSE "MEDIUM")
                  /\ alerts'[i].data = data]_vars

\* readings of 13.0 degrees were received without an alert, then one of
\* 18.1 degrees gave a CRITICAL alert and one of 18.0 degrees a MEDIUM one
C29_Witness ==
    /\ feed.kind = "long"
    /\ feed.stream = "whisky"
    /\ feed.base.ambient_temperature = 130
    /\ Len(received.whisky) = WarmUpReadings + 2
    /\ received.whisky[WarmUpReadings + 1].ambient_temperature = 181
    /\ received.whisky[WarmUpReadings + 2].ambient_temperature = 180
    /\ Len(alerts) = 2
    /\ alerts[1].severity = "CRITICAL"
    /\ alerts[2].severity = "MEDIUM"
    /\ alerts[2].type = "WAREHOUSE_TEMPERATURE"

\* C30 (the cooling-capacity alert is unreachable for real loads): for every
\* sequence of whisky readings whose cooling_load_kw values are all
\* non-negative, process_whisky_stream never appends a COOLING_CAPACITY
\* alert, the predicted peak times 0.9 never being below the current load.
C30_CoolingAlertUnreachable ==
    (\A i \in DOMAIN received.whisky : received.whisky[i].cooling_load_kw >= 0) =>
        /\ \A i \in DOMAIN alerts : alerts[i].type # "COOLING_CAPACITY"
        /\ Len(whisky_window) >= CoolingMinReadings =>
              ~ApproachesPeak(Last(whisky_window).cooling_load_kw,
                              RecentLoads(whisky_window))

\* thirty-one readings, the last with a load above every load before it
C30_Witness ==
    /\ feed.kind = "long"
    /\ feed.stream = "whisky"
    /\ Len(received.whisky) = WarmUpReadings + 2
    /\ Len(whisky_window) >= CoolingMinReadings
    /\ feed.base.cooling_load_kw = 100
    /\ received.whisky[WarmUpReadings + 1].cooling_load_kw = 0
    /\ Last(received.whisky).cooling_load_kw = 123

=============================================================================
